---- MODULE Spec2Model ----
(***************************************************************************)
(* A model of the repository core of jj: the commit store, the index        *)
(* queries the repository needs, ref targets and their merge, the view,     *)
(* MutableRepo (lib/src/repo.rs), transactions, the operation store and     *)
(* the op-heads protocol.                                                   *)
(***************************************************************************)
EXTENDS Integers, Sequences, FiniteSets, TLC

\* ------------------------------------------------------------------------
\* Bounds of the model
\* ------------------------------------------------------------------------

\* Commit ids are 1..MaxCommits; the store never holds more commits.
MaxCommits == 5

\* Operation ids are 1..MaxOps; the operation store never holds more.
MaxOps == 6

\* ------------------------------------------------------------------------
\* Universe
\* ------------------------------------------------------------------------

\* The ids of commits: those of the commits the processes store, and one more
\* for the commits an insertion writes.
CommitIds == 1..(MaxCommits + 1)

OperationIds == 1..MaxOps

\* The synthetic root commit: the first commit of every store.
root_commit_id == 1

\* Option::None for a CommitId.
NoCommit == 0

Procs == {"p1", "p2"}

NoProc == "none"

WorkspaceIds == {"default", "second"}

Remotes == {"origin"}

\* RefName (view.rs): LocalBranch(name), RemoteBranch{branch, remote},
\* Tag(name), GitRef(name).
BranchNames == {"main"}

TagNames == {"v1"}

GitRefNames == {"refs/heads/main"}

LocalBranch(name) == <<"LocalBranch", name>>

RemoteBranch(name, remote) == <<"RemoteBranch", name, remote>>

Tag(name) == <<"Tag", name>>

GitRef(name) == <<"GitRef", name>>

RefNames ==
    {LocalBranch(b) : b \in BranchNames}
        \cup {RemoteBranch(b, rm) : b \in BranchNames, rm \in Remotes}
        \cup {Tag(t) : t \in TagNames}
        \cup {GitRef(g) : g \in GitRefNames}

VARIABLES
    store,       \* the commit store: commit id i is store[i]
    op_store,    \* the operation store: operation id i is op_store[i]
    op_heads,    \* the op-heads store: the set of head operation ids
    lock,        \* the op-heads lock: its holder, or NoProc
    pc,          \* each process's position
    repo,        \* each process's ReadonlyRepo: the id of its operation
    tx,          \* each process's Transaction (its MutableRepo), or NoTx
    unresolved,  \* each process's UnresolvedHeadRepo.op_heads
    call         \* the operation last applied: its name, inputs and result

vars == <<store, op_store, op_heads, lock, pc, repo, tx, unresolved, call>>

\* ------------------------------------------------------------------------
\* Helpers on sequences and sets
\* ------------------------------------------------------------------------

Range(s) == {s[i] : i \in DOMAIN s}

Contains(s, x) == \E i \in DOMAIN s : s[i] = x

Min(S) == CHOOSE x \in S : \A y \in S : x <= y

Max(S) == CHOOSE x \in S : \A y \in S : x >= y

RECURSIVE SetToSeq(_)
\* The elements of a finite set of integers in increasing order.
SetToSeq(S) == IF S = {} THEN <<>> ELSE <<Min(S)>> \o SetToSeq(S \ {Min(S)})

\* The elements of s in the opposite order.
RECURSIVE Reverse(_)
Reverse(s) == IF s = <<>> THEN <<>> ELSE Append(Reverse(Tail(s)), Head(s))

\* s followed by the elements of t that s does not hold, in t's order.
RECURSIVE AppendMissing(_, _)
AppendMissing(s, t) ==
    IF t = <<>> THEN s
    ELSE AppendMissing(IF Contains(s, Head(t)) THEN s ELSE Append(s, Head(t)), Tail(t))

\* ------------------------------------------------------------------------
\* Commits and the store
\* ------------------------------------------------------------------------

\* backend::Commit: the fields the repository core reads.
Commit(parents, predecessors, change_id, tree, description) ==
    [parents |-> parents, predecessors |-> predecessors, change_id |-> change_id,
     tree |-> tree, description |-> description]

RootCommit == Commit(<<>>, <<>>, 0, {}, 0)

parent_ids(st, c) == Range(st[c].parents)

\* Store::write_commit: content-addressed and idempotent; the id of a commit
\* not yet stored is the next free one.
commit_id_of(st, commit) ==
    IF \E i \in DOMAIN st : st[i] = commit
    THEN CHOOSE i \in DOMAIN st : st[i] = commit
    ELSE Len(st) + 1

store_write_commit(st, commit) ==
    IF \E i \in DOMAIN st : st[i] = commit THEN st ELSE Append(st, commit)

\* ------------------------------------------------------------------------
\* Index queries
\* ------------------------------------------------------------------------

RECURSIVE ancestors(_, _)
\* The commits of ids and all their ancestors.
ancestors(st, ids) ==
    LET ps == UNION {parent_ids(st, c) : c \in ids}
    IN  IF ps \subseteq ids THEN ids ELSE ancestors(st, ids \cup ps)

\* Index::is_ancestor: a commit is an ancestor of itself.
is_ancestor(st, ancestor_id, descendant_id) ==
    ancestor_id \in ancestors(st, {descendant_id})

\* Index::heads: the candidates that are not an ancestor of another candidate.
heads(st, candidates) ==
    {c \in candidates :
        ~\E d \in candidates : d # c /\ is_ancestor(st, c, d)}

\* Index::walk_revs: the ancestors of wanted that are not ancestors of unwanted.
walk_revs(st, wanted, unwanted) == ancestors(st, wanted) \ ancestors(st, unwanted)

\* Index::has_id on an index kept as the sequence of its entries.
has_id(index, c) == Contains(index, c)

\* MutableIndex::add_commit: a commit already indexed is not added again.
add_commit(index, c) == IF has_id(index, c) THEN index ELSE Append(index, c)

\* MutableIndex::merge_in: the other index's entries this one lacks.
merge_in(index, other) == AppendMissing(index, other)

\* ------------------------------------------------------------------------
\* Ref targets and the single-ref merge
\* ------------------------------------------------------------------------

NoIds == [c \in CommitIds |-> 0]

\* How often c occurs in the sequence s.
Count(s, c) == Cardinality({i \in DOMAIN s : s[i] = c})

\* The multiset of the elements of a sequence of commit ids.
IdsOf(s) == [c \in CommitIds |-> Count(s, c)]

\* RefTarget: absent, normal(id) or conflicted{removes, adds}; removes and
\* adds are kept as multisets (the number of occurrences of each id).
Conflict(removes, adds) == [removes |-> IdsOf(removes), adds |-> IdsOf(adds)]

Absent == Conflict(<<>>, <<>>)

Normal(c) == Conflict(<<>>, <<c>>)

is_absent(t) == t.adds = NoIds /\ t.removes = NoIds

is_normal(t) == t.removes = NoIds /\ \E c \in CommitIds : t.adds = IdsOf(<<c>>)

is_conflict(t) == ~is_absent(t) /\ ~is_normal(t)

\* The commits a target names, on either side.
target_ids(t) == {c \in CommitIds : t.adds[c] > 0 \/ t.removes[c] > 0}

\* Step 1 of the ref merge: a target as a signed multiset of commit ids.
to_signed(t) == [c \in CommitIds |-> t.adds[c] - t.removes[c]]

\* Steps 2 and 3: the target a signed multiset stands for, identical pairs
\* cancelled.
from_signed(m) ==
    [removes |-> [c \in CommitIds |-> IF m[c] < 0 THEN 0 - m[c] ELSE 0],
     adds |-> [c \in CommitIds |-> IF m[c] > 0 THEN m[c] ELSE 0]]

\* Equality of ref targets: multiset-based, identical pairs cancelled.
ref_target_eq(a, b) == to_signed(a) = to_signed(b)

RECURSIVE simplify_conflict(_, _)
\* Step 4: an add that is an ancestor of another add (or occurs twice) is
\* dropped, alone when there is no remove, else together with a remove that is
\* its ancestor, so that a conflict keeps one more add than removes.
simplify_conflict(st, m) ==
    LET adds == {c \in CommitIds : m[c] > 0}
        removes == {c \in CommitIds : m[c] < 0}
        shadowed == {a \in adds :
                        m[a] >= 2 \/ \E b \in adds \ {a} : is_ancestor(st, a, b)}
        pairs == {p \in removes \X shadowed : is_ancestor(st, p[1], p[2])}
    IN  IF shadowed = {} THEN m
        ELSE IF removes = {}
        THEN simplify_conflict(st, [m EXCEPT ![Min(shadowed)] = @ - 1])
        ELSE IF pairs = {} THEN m
        ELSE LET a == Min({p[2] : p \in pairs})
                 r == Min({p[1] : p \in {q \in pairs : q[2] = a}})
             IN  simplify_conflict(st, [m EXCEPT ![r] = @ + 1, ![a] = @ - 1])

\* The merge of left + right - base as a signed multiset, simplified.
merge_signed(st, left, base, right) ==
    from_signed(simplify_conflict(st,
        [c \in CommitIds |->
            to_signed(left)[c] + to_signed(right)[c] - to_signed(base)[c]]))

\* refs::merge_ref_targets: a side that equals the base gives the other side,
\* two equal sides give that side; anything else is merged as multisets.
merge_ref_targets(st, left, base, right) ==
    IF ref_target_eq(left, base) \/ ref_target_eq(left, right) THEN right
    ELSE IF ref_target_eq(base, right) THEN left
    ELSE merge_signed(st, left, base, right)

\* ------------------------------------------------------------------------
\* The view
\* ------------------------------------------------------------------------

NoWorkspaces == [w \in WorkspaceIds |-> NoCommit]

NoRefs == [n \in RefNames |-> Absent]

View(head_ids, public_head_ids, wc_commit_ids, refs) ==
    [head_ids |-> head_ids, public_head_ids |-> public_head_ids,
     wc_commit_ids |-> wc_commit_ids, refs |-> refs]

\* ReadonlyRepo::init: the root view has the root commit as its only head and
\* its only public head.
root_view == View({root_commit_id}, {root_commit_id}, NoWorkspaces, NoRefs)

view_add_head(v, c) == [v EXCEPT !.head_ids = @ \cup {c}]

view_remove_head(v, c) == [v EXCEPT !.head_ids = @ \ {c}]

view_add_public_head(v, c) == [v EXCEPT !.public_head_ids = @ \cup {c}]

view_remove_public_head(v, c) == [v EXCEPT !.public_head_ids = @ \ {c}]

view_set_wc_commit(v, w, c) == [v EXCEPT !.wc_commit_ids[w] = c]

view_remove_wc_commit(v, w) == [v EXCEPT !.wc_commit_ids[w] = NoCommit]

get_wc_commit_id(v, w) == v.wc_commit_ids[w]

get_ref(v, name) == v.refs[name]

view_set_ref(v, name, target) == [v EXCEPT !.refs[name] = target]

\* The BranchTarget of a branch: its local target and its remote targets.
get_branch(v, name) ==
    [local_target |-> v.refs[LocalBranch(name)],
     remote_targets |-> [rm \in Remotes |-> v.refs[RemoteBranch(name, rm)]]]

\* The keys of a branch's remote_targets.
remote_keys(v, name) ==
    {rm \in Remotes : ~is_absent(v.refs[RemoteBranch(name, rm)])}

\* View::merge_single_ref: the view's own target is the left side.
view_merge_single_ref(st, v, name, base_target, other_target) ==
    view_set_ref(v, name,
        merge_ref_targets(st, get_ref(v, name), base_target, other_target))

\* ------------------------------------------------------------------------
\* MutableRepo
\* ------------------------------------------------------------------------

NoRewrites == [c \in CommitIds |-> {}]

\* A ReadonlyRepo as MutableRepo::merge reads it: its view and its index.
ReadonlyRepo(v, index) == [view |-> v, index |-> index]

\* MutableRepo::new: the view is a copy of the base repo's view and is clean,
\* nothing is recorded as rewritten or abandoned.  parent_ops and metadata are
\* those of the Transaction that owns the MutableRepo.
MutableRepo_new(base_op, index, v) ==
    [base_op |-> base_op, parent_ops |-> <<base_op>>,
     metadata |-> [command |-> "none", arg |-> 0, username |-> NoProc],
     index |-> index,
     view |-> v, dirty |-> FALSE,
     rewritten_commits |-> NoRewrites, abandoned_commits |-> {},
     panicked |-> FALSE]

mark_dirty(r) == [r EXCEPT !.dirty = TRUE]

\* enforce_view_invariants that does not extend head_ids with the public
\* heads.
enforce_view_invariants_heads_only(st, v) ==
    LET public_head_ids == heads(st, v.public_head_ids)
        head_ids == heads(st, v.head_ids)
    IN  [v EXCEPT !.public_head_ids = public_head_ids, !.head_ids = head_ids]

\* MutableRepo::enforce_view_invariants
enforce_view_invariants(st, v) ==
    LET public_head_ids == heads(st, v.public_head_ids)
        head_ids == heads(st, v.head_ids \cup public_head_ids)
    IN  [v EXCEPT !.public_head_ids = public_head_ids, !.head_ids = head_ids]

\* DirtyCell::ensure_clean with enforce_view_invariants.
ensure_clean(st, r) ==
    IF r.dirty
    THEN [r EXCEPT !.view = enforce_view_invariants(st, r.view), !.dirty = FALSE]
    ELSE r

\* MutableRepo::view: the view after ensure_clean.
view(st, r) == ensure_clean(st, r).view

\* MutableRepo::consume: the index and the view after ensure_clean.
consume(st, r) == [index |-> r.index, view |-> view(st, r)]

\* MutableRepo::has_changes
has_changes(st, r, base_view) == view(st, r) # base_view

\* record_rewritten_commit that records nothing.
record_rewritten_commit_nothing(r, old_id, new_id) ==
    IF old_id = root_commit_id THEN [r EXCEPT !.panicked = TRUE] ELSE r

\* MutableRepo::record_rewritten_commit; the assertion fails for the root.
record_rewritten_commit(r, old_id, new_id) ==
    IF old_id = root_commit_id THEN [r EXCEPT !.panicked = TRUE]
    ELSE [r EXCEPT !.rewritten_commits[old_id] = @ \cup {new_id}]

\* MutableRepo::record_abandoned_commit; the assertion fails for the root.
record_abandoned_commit(r, old_id) ==
    IF old_id = root_commit_id THEN [r EXCEPT !.panicked = TRUE]
    ELSE [r EXCEPT !.abandoned_commits = @ \cup {old_id}]

clear_rewritten_commits(r) == [r EXCEPT !.rewritten_commits = NoRewrites]

clear_abandoned_commits(r) == [r EXCEPT !.abandoned_commits = {}]

has_rewrites(r) ==
    ~(r.rewritten_commits = NoRewrites /\ r.abandoned_commits = {})

\* MutableRepo::set_wc_commit: refused for the root commit.
set_wc_commit(r, workspace_id, commit_id) ==
    IF commit_id = root_commit_id THEN r
    ELSE [r EXCEPT !.view = view_set_wc_commit(@, workspace_id, commit_id)]

remove_wc_commit(r, workspace_id) ==
    [r EXCEPT !.view = view_remove_wc_commit(@, workspace_id)]

\* The commits add_head's slow path adds to the index: head and its ancestors
\* not yet indexed, found through parents that are not indexed.
RECURSIVE missing_commits(_, _, _)
missing_commits(st, index, ids) ==
    LET ps == {p \in UNION {parent_ids(st, c) : c \in ids} : ~has_id(index, p)}
    IN  IF ps \subseteq ids THEN ids ELSE missing_commits(st, index, ids \cup ps)

RECURSIVE add_commits(_, _)
add_commits(index, cs) ==
    IF cs = <<>> THEN index ELSE add_commits(add_commit(index, Head(cs)), Tail(cs))

\* add_head that adds the missing commits to the index in the order of the
\* walk, the commit first and its ancestors after it.
add_head_children_first(st, r, head) ==
    IF \A parent_id \in parent_ids(st, head) : parent_id \in r.view.head_ids
    THEN [r EXCEPT !.index = add_commit(@, head),
                   !.view = [@ EXCEPT !.head_ids =
                                (@ \cup {head}) \ parent_ids(st, head)]]
    ELSE [r EXCEPT !.index = add_commits(@,
                        Reverse(SetToSeq(missing_commits(st, r.index, {head})))),
                   !.view = view_add_head(@, head),
                   !.dirty = TRUE]

\* MutableRepo::add_head
add_head(st, r, head) ==
    IF \A parent_id \in parent_ids(st, head) : parent_id \in r.view.head_ids
    THEN [r EXCEPT !.index = add_commit(@, head),
                   !.view = [@ EXCEPT !.head_ids =
                                (@ \cup {head}) \ parent_ids(st, head)]]
    ELSE [r EXCEPT !.index = add_commits(@,
                                SetToSeq(missing_commits(st, r.index, {head}))),
                   !.view = view_add_head(@, head),
                   !.dirty = TRUE]

\* MutableRepo::remove_head
remove_head(r, head) ==
    mark_dirty([r EXCEPT !.view = view_remove_head(@, head)])

\* MutableRepo::add_public_head
add_public_head(r, head) ==
    mark_dirty([r EXCEPT !.view = view_add_public_head(@, head)])

\* MutableRepo::remove_public_head
remove_public_head(r, head) ==
    mark_dirty([r EXCEPT !.view = view_remove_public_head(@, head)])

\* MutableRepo::set_view
set_view(r, data) == mark_dirty([r EXCEPT !.view = data])

\* merge_single_ref with the base and the other target passed in each other's
\* place.
merge_single_ref_swapped(st, r, ref_name, base_target, other_target) ==
    [r EXCEPT !.view =
        view_merge_single_ref(st, @, ref_name, other_target, base_target)]

\* MutableRepo::merge_single_ref
merge_single_ref(st, r, ref_name, base_target, other_target) ==
    [r EXCEPT !.view =
        view_merge_single_ref(st, @, ref_name, base_target, other_target)]

\* record_rewrites that forgets the successors recorded before.
record_rewrites_overwrite(st, r, old_heads, new_heads) ==
    LET removed == walk_revs(st, old_heads, new_heads)
        added == walk_revs(st, new_heads, old_heads)
        rewritten_changes == {st[a].change_id : a \in added}
        rewritten_to(old) == {a \in added : st[a].change_id = st[old].change_id}
    IN  IF removed = {} THEN r
        ELSE [r EXCEPT
                !.rewritten_commits =
                    [c \in CommitIds |->
                        IF c \in removed \ {root_commit_id}
                        THEN rewritten_to(c) ELSE @[c]],
                !.abandoned_commits =
                    @ \cup {c \in removed \ {root_commit_id} :
                                st[c].change_id \notin rewritten_changes},
                !.panicked = @ \/ root_commit_id \in removed]

\* record_rewrites that records every commit no longer reached as abandoned.
record_rewrites_as_abandoned(st, r, old_heads, new_heads) ==
    [r EXCEPT !.abandoned_commits =
                @ \cup (walk_revs(st, old_heads, new_heads) \ {root_commit_id}),
              !.panicked = @ \/ root_commit_id \in walk_revs(st, old_heads, new_heads)]

\* record_rewrites that records nothing.
record_rewrites_nothing(st, r, old_heads, new_heads) == r

\* record_rewrites that records as abandoned also the commits it records as
\* rewritten.
record_rewrites_abandons_rewritten(st, r, old_heads, new_heads) ==
    LET removed == walk_revs(st, old_heads, new_heads)
        added == walk_revs(st, new_heads, old_heads)
        rewritten_to(old) == {a \in added : st[a].change_id = st[old].change_id}
    IN  IF removed = {} THEN r
        ELSE [r EXCEPT
                !.rewritten_commits =
                    [c \in CommitIds |->
                        IF c \in removed \ {root_commit_id}
                        THEN @[c] \cup rewritten_to(c) ELSE @[c]],
                !.abandoned_commits = @ \cup (removed \ {root_commit_id}),
                !.panicked = @ \/ root_commit_id \in removed]

\* MutableRepo::record_rewrites: a commit reachable from old_heads only is
\* rewritten to the commits of the same change reachable from new_heads only,
\* and abandoned when there is none.
record_rewrites(st, r, old_heads, new_heads) ==
    LET removed == walk_revs(st, old_heads, new_heads)
        added == walk_revs(st, new_heads, old_heads)
        rewritten_changes == {st[a].change_id : a \in added}
        rewritten_to(old) == {a \in added : st[a].change_id = st[old].change_id}
    IN  IF removed = {} THEN r
        ELSE [r EXCEPT
                !.rewritten_commits =
                    [c \in CommitIds |->
                        IF c \in removed \ {root_commit_id}
                        THEN @[c] \cup rewritten_to(c) ELSE @[c]],
                !.abandoned_commits =
                    @ \cup {c \in removed \ {root_commit_id} :
                                st[c].change_id \notin rewritten_changes},
                !.panicked = @ \/ root_commit_id \in removed]

\* merge_wc_commit with the other side winning when both sides moved the
\* workspace.
merge_wc_commit_other_wins(self_checkout, base_checkout, other_checkout) ==
    LET after_base ==
            IF base_checkout = NoCommit THEN self_checkout
            ELSE IF other_checkout = base_checkout \/ other_checkout = self_checkout
            THEN self_checkout
            ELSE IF other_checkout # NoCommit THEN other_checkout
            ELSE NoCommit
    IN  IF other_checkout # NoCommit /\ after_base = NoCommit
            /\ base_checkout = NoCommit
        THEN other_checkout
        ELSE after_base

\* The merge of one workspace's working-copy commit in merge_view.
merge_wc_commit(self_checkout, base_checkout, other_checkout) ==
    LET after_base ==
            IF base_checkout = NoCommit THEN self_checkout
            ELSE IF other_checkout = base_checkout \/ other_checkout = self_checkout
            THEN self_checkout
            ELSE IF other_checkout # NoCommit
            THEN (IF self_checkout = base_checkout
                  THEN other_checkout ELSE self_checkout)
            ELSE NoCommit
    IN  IF other_checkout # NoCommit /\ after_base = NoCommit
            /\ base_checkout = NoCommit
        THEN other_checkout
        ELSE after_base

\* The ref names merge_view merges: the local and remote names of the branches
\* that differ between base and other, and every tag and git ref of either.
maybe_changed_ref_names(base, other) ==
    LET changed_branches ==
            {b \in BranchNames : get_branch(other, b) # get_branch(base, b)}
    IN  UNION {
            {LocalBranch(b) : b \in changed_branches},
            UNION {{RemoteBranch(b, rm) :
                        rm \in remote_keys(base, b) \cup remote_keys(other, b)} :
                    b \in changed_branches},
            {Tag(t) : t \in {n \in TagNames :
                ~is_absent(base.refs[Tag(n)]) \/ ~is_absent(other.refs[Tag(n)])}},
            {GitRef(g) : g \in {n \in GitRefNames :
                ~is_absent(base.refs[GitRef(n)])
                    \/ ~is_absent(other.refs[GitRef(n)])}}}

\* merge_view, the working-copy commits: every workspace merged on its own.
merge_wc_commits(v, base, other) ==
    [v EXCEPT !.wc_commit_ids =
        [w \in WorkspaceIds |->
            merge_wc_commit(@[w], base.wc_commit_ids[w], other.wc_commit_ids[w])]]

\* merge_view, the public heads: those other removed are removed, those other
\* added are added.
merge_public_heads(v, base, other) ==
    [v EXCEPT !.public_head_ids =
        (@ \ (base.public_head_ids \ other.public_head_ids))
            \cup (other.public_head_ids \ base.public_head_ids)]

\* merge_heads with the heads of the base added as well.
merge_heads_with_base(v, base, other) ==
    [v EXCEPT !.head_ids = @ \cup other.head_ids \cup base.head_ids]

\* merge_view, the heads: the heads other added are added; those it removed
\* are left to the recorded rewrites.
merge_heads(v, base, other) ==
    [v EXCEPT !.head_ids = @ \cup (other.head_ids \ base.head_ids)]

\* merge_refs with the other side's target taken for every name that may have
\* changed.
merge_refs_take_other(st, v, base, other) ==
    [v EXCEPT !.refs =
        [n \in RefNames |->
            IF n \in maybe_changed_ref_names(base, other)
            THEN other.refs[n]
            ELSE @[n]]]

\* merge_view, the refs: every name that may have changed is merged.
merge_refs(st, v, base, other) ==
    [v EXCEPT !.refs =
        [n \in RefNames |->
            IF n \in maybe_changed_ref_names(base, other)
            THEN get_ref(view_merge_single_ref(st, v, n, base.refs[n],
                                               other.refs[n]), n)
            ELSE @[n]]]

\* MutableRepo::merge_view
merge_view(st, r, base, other) ==
    LET own == view(st, r)
        r1 == [r EXCEPT !.view =
                merge_public_heads(merge_wc_commits(own, base, other), base, other)]
        r2 == record_rewrites(st, r1, base.head_ids, own.head_ids)
        r3 == record_rewrites(st, r2, base.head_ids, other.head_ids)
    IN  [r3 EXCEPT !.view = merge_refs(st, merge_heads(@, base, other), base, other)]

\* merge with the base repository and the other repository passed in each
\* other's place.
merge_swapped(st, r, base_repo, other_repo) ==
    LET r1 == [r EXCEPT !.index = merge_in(merge_in(@, base_repo.index),
                                           other_repo.index)]
    IN  mark_dirty(merge_view(st, ensure_clean(st, r1), other_repo.view,
                              base_repo.view))

\* MutableRepo::merge
merge(st, r, base_repo, other_repo) ==
    LET r1 == [r EXCEPT !.index = merge_in(merge_in(@, base_repo.index),
                                           other_repo.index)]
    IN  mark_dirty(merge_view(st, ensure_clean(st, r1), base_repo.view,
                              other_repo.view))

\* MutableRepo::set_local_branch
set_local_branch(r, name, target) ==
    [r EXCEPT !.view = view_set_ref(@, LocalBranch(name), target)]

\* Commit::is_empty: the tree is the merge of the parents' trees.
is_empty(st, c) == st[c].tree = UNION {st[p].tree : p \in parent_ids(st, c)}

\* leave_commit that does not look at the description of the commit.
leave_commit_described(st, r, workspace_id) ==
    LET wc_commit_id == get_wc_commit_id(r.view, workspace_id)
        clean == ensure_clean(st, r)
    IN  IF wc_commit_id = NoCommit THEN r
        ELSE IF ~is_empty(st, wc_commit_id) THEN r
        ELSE IF wc_commit_id \in clean.view.head_ids
        THEN record_abandoned_commit(clean, wc_commit_id)
        ELSE clean

\* MutableRepo::leave_commit: the working-copy commit a workspace leaves is
\* recorded as abandoned when it is empty, has no description and is a head;
\* the heads are read through view().
leave_commit(st, r, workspace_id) ==
    LET wc_commit_id == get_wc_commit_id(r.view, workspace_id)
        clean == ensure_clean(st, r)
    IN  IF wc_commit_id = NoCommit THEN r
        ELSE IF ~(is_empty(st, wc_commit_id) /\ st[wc_commit_id].description = 0)
        THEN r
        ELSE IF wc_commit_id \in clean.view.head_ids
        THEN record_abandoned_commit(clean, wc_commit_id)
        ELSE clean

\* MutableRepo::edit
edit(st, r, workspace_id, commit_id) ==
    set_wc_commit(leave_commit(st, r, workspace_id), workspace_id, commit_id)

\* The commit check_out writes: an empty child of the commit checked out, of a
\* new change.
wc_commit_for(st, commit_id) ==
    Commit(<<commit_id>>, <<>>, Len(st) + 1, st[commit_id].tree, 0)

\* check_out that writes the new commit to the store without adding it to the
\* heads.
check_out_unseen(st, r, workspace_id, wc_commit_id) ==
    set_wc_commit(leave_commit(st, r, workspace_id), workspace_id, wc_commit_id)

\* MutableRepo::check_out; st is the store that holds the new commit.
check_out(st, r, workspace_id, wc_commit_id) ==
    set_wc_commit(add_head(st, leave_commit(st, r, workspace_id), wc_commit_id),
                  workspace_id, wc_commit_id)

\* rewrite_commit giving the new commit a change id of its own.
rewritten_commit_new_change(st, old_id) ==
    Commit(st[old_id].parents, <<old_id>>, Len(st) + 1, st[old_id].tree,
           Len(st) + 1)

\* The commit CommitBuilder::for_rewrite_from writes: the predecessor with a
\* new description, of the same change.
rewritten_commit(st, old_id) ==
    Commit(st[old_id].parents, <<old_id>>, st[old_id].change_id, st[old_id].tree,
           Len(st) + 1)

\* CommitBuilder::write of a rewrite: the commit is written and the
\* predecessor recorded as rewritten to it; st is the store that holds it.
write_rewritten(st, r, old_id, new_id) ==
    record_rewritten_commit(add_head(st, r, new_id), old_id, new_id)

\* ------------------------------------------------------------------------
\* The descendant rebaser
\* ------------------------------------------------------------------------

RECURSIVE Dedup(_)
\* A sequence without the later occurrences of its elements.
Dedup(s) ==
    IF s = <<>> THEN <<>>
    ELSE LET init == Dedup(SubSeq(s, 1, Len(s) - 1))
         IN  IF Contains(init, s[Len(s)]) THEN init ELSE Append(init, s[Len(s)])

RECURSIVE Flatten(_)
\* The concatenation of a sequence of sequences.
Flatten(ss) == IF ss = <<>> THEN <<>> ELSE Head(ss) \o Flatten(Tail(ss))

\* The elements of a sequence that satisfy keep, in order.
Filter(s, keep(_)) ==
    LET F[i \in 0..Len(s)] ==
            IF i = 0 THEN <<>>
            ELSE IF keep(s[i]) THEN Append(F[i - 1], s[i]) ELSE F[i - 1]
    IN  F[Len(s)]

\* The successors recorded for a commit.
successors(rewritten, c) == IF c \in DOMAIN rewritten THEN rewritten[c] ELSE {}

\* The commits the rebaser replaces: rewritten or abandoned.
is_replaced(rewritten, abandoned, c) ==
    successors(rewritten, c) # {} \/ c \in abandoned

RECURSIVE new_parents(_, _, _, _)
\* Step 2a: what stands for the parent p: the successors of a rewritten commit,
\* the new parents of the parents of an abandoned commit, else p itself.
new_parents(st, rewritten, abandoned, p) ==
    IF successors(rewritten, p) # {} THEN SetToSeq(successors(rewritten, p))
    ELSE IF p \in abandoned
    THEN Dedup(Flatten([i \in DOMAIN st[p].parents |->
                new_parents(st, rewritten, abandoned, st[p].parents[i])]))
    ELSE <<p>>

\* Steps 2b and 3: a parent that is an ancestor of another parent is dropped,
\* and so is the root beside other parents.
simplify_parents(st, parents) ==
    Filter(parents,
           LAMBDA p : ~\E q \in Range(parents) : q # p /\ is_ancestor(st, p, q))

RECURSIVE rebase_next(_, _, _, _, _)
\* Step 2: the commits of to_visit, parents first; a commit whose parents
\* change is written again on its new parents with the same change id, tree and
\* description, and becomes a rewritten commit itself.
rebase_next(st, rewritten, abandoned, to_visit, rebased) ==
    IF to_visit = <<>>
    THEN [store |-> st, rewritten |-> rewritten, rebased |-> rebased]
    ELSE LET c == Head(to_visit)
             parents == simplify_parents(st,
                 Dedup(Flatten([i \in DOMAIN st[c].parents |->
                     new_parents(st, rewritten, abandoned, st[c].parents[i])])))
             new_commit == Commit(parents, <<c>>, st[c].change_id, st[c].tree,
                                  st[c].description)
         IN  IF is_replaced(rewritten, abandoned, c) \/ parents = st[c].parents
             THEN rebase_next(st, rewritten, abandoned, Tail(to_visit), rebased)
             ELSE rebase_next(store_write_commit(st, new_commit),
                              [rewritten EXCEPT ![c] = {commit_id_of(st, new_commit)}],
                              abandoned, Tail(to_visit), rebased \cup {c})

\* Step 1: the visible commits that descend from a replaced commit, parents
\* first (a commit's id is larger than its parents').
to_visit(st, r) ==
    LET old == {c \in DOMAIN st :
                    is_replaced(r.rewritten_commits, r.abandoned_commits, c)}
    IN  SetToSeq({c \in ancestors(st, view(st, r).head_ids) \ old :
                    \E o \in old : is_ancestor(st, o, c)})

RECURSIVE update_ref(_, _, _, _, _)
\* Step 4: a ref that points at a replaced commit moves to what stands for it,
\* one successor after the other.
update_ref(st, rewritten, abandoned, target, olds) ==
    IF olds = <<>> THEN target
    ELSE LET old == Head(olds)
             news == new_parents(st, rewritten, abandoned, old)
             moved[i \in 0..Len(news)] ==
                 IF i = 0 THEN target
                 ELSE merge_ref_targets(st, moved[i - 1], Normal(old), Normal(news[i]))
         IN  update_ref(st, rewritten, abandoned,
                        IF target.adds[old] > 0 THEN moved[Len(news)] ELSE target,
                        Tail(olds))

\* Step 5: the commit a workspace at old moves to: the first new parent of an
\* abandoned commit, the successor of a rewritten one; NoCommit when a
\* rewritten commit has several successors and a new commit is needed.
new_wc_commit(st, rewritten, abandoned, old) ==
    IF Cardinality(successors(rewritten, old)) > 1 THEN NoCommit
    ELSE new_parents(st, rewritten, abandoned, old)[1]

RECURSIVE update_wc_commits(_, _, _, _, _)
\* Step 5 for the workspaces ws: a workspace at a commit with several
\* successors gets a new empty commit on the first of them.
update_wc_commits(st, rewritten, abandoned, wcs, ws) ==
    IF ws = {} THEN [store |-> st, wc_commit_ids |-> wcs]
    ELSE LET w == CHOOSE x \in ws : TRUE
             old == wcs[w]
             moved == new_wc_commit(st, rewritten, abandoned, old)
             first == Min(successors(rewritten, old))
             child == Commit(<<first>>, <<>>, Len(st) + 1, st[first].tree, 0)
         IN  IF old = NoCommit \/ ~is_replaced(rewritten, abandoned, old)
             THEN update_wc_commits(st, rewritten, abandoned, wcs, ws \ {w})
             ELSE IF moved # NoCommit
             THEN update_wc_commits(st, rewritten, abandoned,
                                    [wcs EXCEPT ![w] = moved], ws \ {w})
             ELSE update_wc_commits(store_write_commit(st, child), rewritten,
                                    abandoned,
                                    [wcs EXCEPT ![w] = commit_id_of(st, child)],
                                    ws \ {w})

\* DescendantRebaser::rebase_all: the store and the MutableRepo it leaves, and
\* the commits it rebased.
rebase_all(st, r) ==
    LET done == rebase_next(st, r.rewritten_commits, r.abandoned_commits,
                            to_visit(st, r), {})
        old == {c \in DOMAIN st :
                    is_replaced(done.rewritten, r.abandoned_commits, c)}
        own == view(st, r)
        wc == update_wc_commits(done.store, done.rewritten, r.abandoned_commits,
                                own.wc_commit_ids, WorkspaceIds)
        new_heads ==
            UNION {Range(new_parents(st, done.rewritten, r.abandoned_commits, c)) :
                    c \in old}
                \cup {c \in Range(wc.wc_commit_ids) : c > Len(done.store)}
        new_view ==
            [own EXCEPT
                !.head_ids = (@ \ old) \cup new_heads,
                !.wc_commit_ids = wc.wc_commit_ids,
                !.refs = [n \in RefNames |->
                            update_ref(done.store, done.rewritten,
                                       r.abandoned_commits, @[n], SetToSeq(old))]]
        r1 == [r EXCEPT !.index = add_commits(@,
                    SetToSeq((DOMAIN wc.store) \ DOMAIN st))]
    IN  [store |-> wc.store,
         repo |-> clear_abandoned_commits(clear_rewritten_commits(set_view(r1, new_view))),
         rebased |-> done.rebased]

\* rebase_descendants that forgets the records and rebases nothing.
rebase_descendants_forget(st, r) ==
    [store |-> st, repo |-> clear_abandoned_commits(clear_rewritten_commits(r)),
     rebased |-> {}]

\* MutableRepo::rebase_descendants: nothing to do without recorded rewrites.
rebase_descendants(st, r) ==
    IF ~has_rewrites(r) THEN [store |-> st, repo |-> r, rebased |-> {}]
    ELSE rebase_all(st, r)

\* ------------------------------------------------------------------------
\* Operations, transactions and the op heads
\* ------------------------------------------------------------------------

\* An operation: its parents, its view, its metadata, and the index stored
\* for it.
Operation(parents, v, index, metadata) ==
    [parents |-> parents, view |-> v, index |-> index, metadata |-> metadata]

\* OperationMetadata: the description (a command and its argument) and the
\* user.
OperationMetadata(command, arg, username) ==
    [command |-> command, arg |-> arg, username |-> username]

RECURSIVE op_ancestors(_, _)
\* The operations of ids and all their ancestors.
op_ancestors(ops, ids) ==
    LET ps == UNION {Range(ops[o].parents) : o \in ids}
    IN  IF ps \subseteq ids THEN ids ELSE op_ancestors(ops, ids \cup ps)

\* The closest common ancestor of the operations a and of b: the latest of
\* their common ancestors.
closest_common_node(ops, a, b) ==
    Max(op_ancestors(ops, a) \cap op_ancestors(ops, {b}))

\* RepoLoader::load_at: the repository at an operation.
load_at(ops, op_id) == ReadonlyRepo(ops[op_id].view, ops[op_id].index)

\* ReadonlyRepo::start_transaction
start_transaction(ops, op_id, metadata) ==
    [MutableRepo_new(op_id, ops[op_id].index, ops[op_id].view)
        EXCEPT !.metadata = metadata]

\* Transaction::merge_operation: the other operation becomes a parent and its
\* repository is merged in, on the repository at the closest common ancestor.
merge_operation(st, ops, r, other_op) ==
    LET ancestor_op == closest_common_node(ops, Range(r.parent_ops), other_op)
    IN  [merge(st, r, load_at(ops, ancestor_op), load_at(ops, other_op))
            EXCEPT !.parent_ops = Append(@, other_op)]

\* Transaction::write: the operation on the transaction's parents with the
\* view and the index the MutableRepo is consumed to.
transaction_write(st, r) ==
    Operation(r.parent_ops, view(st, r), r.index, r.metadata)

RECURSIVE merge_op_heads(_, _, _)
\* The loop of UnresolvedHeadRepo::resolve: every other op head is merged
\* into the transaction tx (the store and the MutableRepo it works on) and
\* the descendants are rebased.
merge_op_heads(ops, tx_state, others) ==
    IF others = <<>> THEN tx_state
    ELSE merge_op_heads(ops,
            rebase_descendants(tx_state.store,
                merge_operation(tx_state.store, ops, tx_state.repo, Head(others))),
            Tail(others))

\* tx.write() at the end of resolve: the store the transaction leaves and the
\* operation it writes.
resolved(tx_state) ==
    [store |-> tx_state.store,
     op |-> transaction_write(tx_state.store, tx_state.repo),
     panicked |-> tx_state.repo.panicked]

\* resolve with the loop over the op heads not skipping the first.
resolve_skip_none(st, ops, heads_seq, username) ==
    resolved(merge_op_heads(ops,
        [store |-> st,
         repo |-> start_transaction(ops, Head(heads_seq),
                    OperationMetadata("resolve concurrent operations", 0,
                                      username))],
        heads_seq))

\* UnresolvedHeadRepo::resolve up to tx.write(): the store it leaves and the
\* operation it writes.
resolve(st, ops, heads_seq, username) ==
    resolved(merge_op_heads(ops,
        [store |-> st,
         repo |-> start_transaction(ops, Head(heads_seq),
                    OperationMetadata("resolve concurrent operations", 0,
                                      username))],
        Tail(heads_seq)))

\* UnresolvedHeadRepo built without the lock guard, which is dropped.
UnresolvedHeadRepo_unlocked(locked_op_heads, heads_seq) ==
    [locked_op_heads |-> NoProc, op_heads |-> heads_seq]

\* UnresolvedHeadRepo as load_at_head builds it: the lock guard of the process
\* that holds the lock, and the op heads in the order the store listed them.
UnresolvedHeadRepo(locked_op_heads, heads_seq) ==
    [locked_op_heads |-> locked_op_heads, op_heads |-> heads_seq]

NoUnresolved == [locked_op_heads |-> NoProc, op_heads |-> <<>>]

\* The op heads after tx.write() were they updated as by publish().
written_op_heads_published(hs, ops, op_id) ==
    (hs \cup {op_id}) \ Range(ops[op_id].parents)

\* The op heads after Transaction::write: the operation is written without
\* yet updating the op heads.
written_op_heads(hs, ops, op_id) == hs

\* The op heads after UnpublishedOperation::publish: the operation is a head
\* and its parents are not.
published_op_heads(hs, ops, op_id) ==
    (hs \cup {op_id}) \ Range(ops[op_id].parents)

\* ------------------------------------------------------------------------
\* Inputs: commit graphs and ref targets
\* ------------------------------------------------------------------------

\* The size of the commit graphs the single-ref merge is checked on.
MaxRefCommits == 3

\* A commit of its own change, with its own tree and description.
PlainCommit(n, parents) == Commit(SetToSeq(parents), <<>>, n, {n}, n)

RECURSIVE Dags(_)
\* Every store of n commits in which each commit but the root has parents
\* among the commits before it.
Dags(n) ==
    IF n = 1 THEN {<<RootCommit>>}
    ELSE {Append(st, PlainCommit(n, ps)) :
            st \in Dags(n - 1), ps \in (SUBSET (1..(n - 1))) \ {{}}}

\* The pairs a < b of a set of commit ids.
Pairs(S) == {p \in S \X S : p[1] < p[2]}

\* The ref targets over the commits of a store: absent, normal, and the
\* conflicts of two different adds with at most one remove.
RefTargets(st) ==
    {Absent} \cup {Normal(c) : c \in DOMAIN st}
        \cup {Conflict(<<>>, <<p[1], p[2]>>) : p \in Pairs(DOMAIN st)}
        \cup UNION {{Conflict(<<r>>, <<p[1], p[2]>>) : p \in Pairs(DOMAIN st \ {r})} :
                    r \in DOMAIN st}

\* A transaction that belongs to no process.
NoTx == MutableRepo_new(0, <<>>, root_view)

\* The index of a store that indexes all of its commits.
full_index(st) == [i \in DOMAIN st |-> i]

\* ------------------------------------------------------------------------
\* The single-ref merge on every input
\* ------------------------------------------------------------------------

InitRefMerge ==
    /\ store \in Dags(MaxRefCommits)
    /\ op_store = <<>>
    /\ op_heads = {}
    /\ lock = NoProc
    /\ pc = [p \in Procs |-> "idle"]
    /\ repo = [p \in Procs |-> 0]
    /\ unresolved = [p \in Procs |-> NoUnresolved]
    /\ \E ref_name \in {LocalBranch("main")}, left \in RefTargets(store),
          base \in RefTargets(store), other \in RefTargets(store) :
        /\ tx = [p \in Procs |->
                    IF p = "p1"
                    THEN MutableRepo_new(0, full_index(store),
                            view_set_ref(root_view, ref_name, left))
                    ELSE NoTx]
        /\ call = [op |-> "start", ref_name |-> ref_name, left |-> left,
                   base |-> base, other |-> other]

\* mut_repo.merge_single_ref(ref_name, base_target, other_target)
MergeSingleRef ==
    /\ call.op = "start"
    /\ tx' = [tx EXCEPT !["p1"] =
                merge_single_ref(store, @, call.ref_name, call.base, call.other)]
    /\ call' = [call EXCEPT !.op = "merge_single_ref"]
    /\ UNCHANGED <<store, op_store, op_heads, lock, pc, repo, unresolved>>

NextRefMerge == MergeSingleRef

SpecRefMerge == InitRefMerge /\ [][NextRefMerge]_vars

\* The target merge_single_ref left in the view.
merged_target == get_ref(tx["p1"].view, call.ref_name)

MaxBranchCommits == 4

\* The size of the commit graphs whole views are merged on.
MaxViewCommits == 3

\* The variables the merge specifications do not use.
InitNoOps ==
    /\ op_store = <<>>
    /\ op_heads = {}
    /\ lock = NoProc
    /\ pc = [p \in Procs |-> "idle"]
    /\ repo = [p \in Procs |-> 0]
    /\ unresolved = [p \in Procs |-> NoUnresolved]

\* A transaction of p1 on the view own, about to merge other with base.
InitMergeOf(own, base, other) ==
    /\ tx = [p \in Procs |->
                IF p = "p1" THEN MutableRepo_new(0, full_index(store), own)
                ELSE NoTx]
    /\ call = [op |-> "start", own |-> own,
               base_repo |-> ReadonlyRepo(base, full_index(store)),
               other_repo |-> ReadonlyRepo(other, full_index(store))]

\* mut_repo.merge(base_repo, other_repo)
Merge ==
    /\ call.op = "start"
    /\ tx' = [tx EXCEPT !["p1"] = merge(store, @, call.base_repo, call.other_repo)]
    /\ call' = [call EXCEPT !.op = "merge"]
    /\ UNCHANGED <<store, op_store, op_heads, lock, pc, repo, unresolved>>

NextMerge == Merge

\* The view the transaction shows after the merge.
merged_view == view(store, tx["p1"])

\* The view of a repository in which every commit of the store is visible and
\* one ref has a target.
ViewWithRef(st, name, target) ==
    View(heads(st, DOMAIN st), {root_commit_id}, NoWorkspaces,
         [NoRefs EXCEPT ![name] = target])

\* Absent and the normal targets over the commits of a store.
PlainTargets(st) == {Absent} \cup {Normal(c) : c \in DOMAIN st}

\* Two sides that each moved, created or deleted one ref.
InitMergeBranch ==
    /\ store \in Dags(MaxBranchCommits)
    /\ InitNoOps
    /\ \E name \in {LocalBranch("main"), Tag("v1")},
          B \in PlainTargets(store), X \in PlainTargets(store),
          Y \in PlainTargets(store) :
        InitMergeOf(ViewWithRef(store, name, X), ViewWithRef(store, name, B),
                    ViewWithRef(store, name, Y))

SpecMergeBranch == InitMergeBranch /\ [][NextMerge]_vars

\* The view of a repository in which every commit of the store is visible,
\* with the given working-copy commits.
ViewWithWorkspaces(st, wcs) ==
    View(heads(st, DOMAIN st), {root_commit_id}, wcs, NoRefs)

\* The working-copy commits of the workspaces: none, or a commit but the root.
WcChoices(st) == [WorkspaceIds -> {NoCommit} \cup (DOMAIN st \ {root_commit_id})]

\* The number of commits the workspaces' commits are drawn from.
MaxWcCommits == 4

\* The store of n commits in which every commit but the root has the commit
\* before it as its parent.
LinearStore(n) ==
    [i \in 1..n |-> IF i = 1 THEN RootCommit ELSE PlainCommit(i, {i - 1})]

\* Two sides that each set, moved or removed the workspaces' commits.
InitMergeWorkspace ==
    /\ store = LinearStore(MaxWcCommits)
    /\ InitNoOps
    /\ \E b \in WcChoices(store), s \in WcChoices(store), o \in WcChoices(store) :
        InitMergeOf(ViewWithWorkspaces(store, s), ViewWithWorkspaces(store, b),
                    ViewWithWorkspaces(store, o))

SpecMergeWorkspace == InitMergeWorkspace /\ [][NextMerge]_vars

\* The non-empty sets of commits none of which is an ancestor of another.
Antichains(st, ids) == {h \in (SUBSET ids) \ {{}} : heads(st, h) = h}

\* The views that satisfy the view invariants: the heads are an antichain, the
\* public heads an antichain among their ancestors, the default workspace's
\* commit is a head, and the branch points at a visible commit.
ValidViews(st) ==
    UNION {UNION {
        {View(h, p, [NoWorkspaces EXCEPT !["default"] = w],
              [NoRefs EXCEPT ![LocalBranch("main")] = t]) :
            w \in {NoCommit} \cup (h \ {root_commit_id}),
            t \in {Absent} \cup {Normal(c) : c \in ancestors(st, h)}} :
        p \in Antichains(st, ancestors(st, h))} :
      h \in Antichains(st, DOMAIN st)}

\* A view merged with itself, on any base.
InitMergeSelf ==
    /\ store \in Dags(MaxViewCommits)
    /\ InitNoOps
    /\ \E V \in ValidViews(store), B \in ValidViews(store) : InitMergeOf(V, B, V)

SpecMergeSelf == InitMergeSelf /\ [][NextMerge]_vars

\* The only commit of a normal target.
normal_id(t) == CHOOSE c \in CommitIds : t.adds[c] > 0

\* The target of the merged ref in a view of the branch-move merge.
branch_target(v) ==
    LET name == CHOOSE n \in RefNames :
                    \A m \in RefNames \ {n} :
                        /\ is_absent(call.own.refs[m])
                        /\ is_absent(call.base_repo.view.refs[m])
                        /\ is_absent(call.other_repo.view.refs[m])
    IN  v.refs[name]

\* The base B and the sides X and Y of the branch-move merge are three
\* different commits none of which is an ancestor of another.
unrelated_moves ==
    LET B == branch_target(call.base_repo.view)
        X == branch_target(call.own)
        Y == branch_target(call.other_repo.view)
    IN  /\ is_normal(B) /\ is_normal(X) /\ is_normal(Y)
        /\ \A p \in {normal_id(B), normal_id(X), normal_id(Y)} \X
                     {normal_id(B), normal_id(X), normal_id(Y)} :
                p[1] # p[2] => ~is_ancestor(store, p[1], p[2])
        /\ Cardinality({normal_id(B), normal_id(X), normal_id(Y)}) = 3

\* C6: when a ref pointed at B in the common ancestor and one side moved it to
\* X and the other to Y, with B, X and Y different and none an ancestor of
\* another, the merged ref is the conflict removes = [B], adds = [X, Y]; it is
\* never resolved to one of the two sides.
BranchMoveConflict ==
    (call.op = "merge" /\ unrelated_moves) =>
        /\ branch_target(merged_view) =
                Conflict(<<normal_id(branch_target(call.base_repo.view))>>,
                         <<normal_id(branch_target(call.own)),
                           normal_id(branch_target(call.other_repo.view))>>)
        /\ branch_target(merged_view) # branch_target(call.own)
        /\ branch_target(merged_view) # branch_target(call.other_repo.view)

\* Two sides that moved a local branch from B to unrelated X and Y were merged.
BranchMoveConflictWitness ==
    /\ call.op = "merge"
    /\ unrelated_moves
    /\ is_normal(call.own.refs[LocalBranch("main")])
    /\ is_conflict(merged_view.refs[LocalBranch("main")])

\* C8: merging a view with itself changes nothing: for every valid view V and
\* every base B, the view after merge(B, V, V) is V.
SelfMergeNoOp ==
    call.op = "merge" => merged_view = call.own

\* A view with two heads was merged with itself on a base that differs from it
\* in the heads, the public heads, the working-copy commit and the branch.
SelfMergeWitness ==
    /\ call.op = "merge"
    /\ call.other_repo.view = call.own
    /\ Cardinality(call.own.head_ids) = 2
    /\ call.base_repo.view.head_ids # call.own.head_ids
    /\ call.base_repo.view.public_head_ids # call.own.public_head_ids
    /\ call.base_repo.view.wc_commit_ids # call.own.wc_commit_ids
    /\ call.base_repo.view.refs # call.own.refs
    /\ merged_view = call.own

\* C9: the working-copy commit of a workspace W, with b in the base, s in self
\* and o in other: o = b keeps s; s = b takes o; both sides moved to different
\* commits keeps s; W in the base and absent on either side is absent.
WorkspaceMergeRule ==
    call.op = "merge" =>
        \A w \in WorkspaceIds :
            LET b == call.base_repo.view.wc_commit_ids[w]
                s == call.own.wc_commit_ids[w]
                o == call.other_repo.view.wc_commit_ids[w]
                merged == merged_view.wc_commit_ids[w]
            IN  /\ (o = b => merged = s)
                /\ (s = b => merged = o)
                /\ (s # b /\ o # b /\ s # o /\ s # NoCommit /\ o # NoCommit
                        => merged = s)
                /\ (b # NoCommit /\ (s = NoCommit \/ o = NoCommit)
                        => merged = NoCommit)

\* Both sides moved the default workspace to different commits and self's was
\* kept, and other removed the second workspace that self had moved.
WorkspaceMergeWitness ==
    LET b == call.base_repo.view.wc_commit_ids
        s == call.own.wc_commit_ids
        o == call.other_repo.view.wc_commit_ids
    IN  /\ call.op = "merge"
        /\ b["default"] # NoCommit /\ s["default"] # NoCommit
        /\ o["default"] # NoCommit
        /\ s["default"] # b["default"] /\ o["default"] # b["default"]
        /\ s["default"] # o["default"]
        /\ merged_view.wc_commit_ids["default"] = s["default"]
        /\ b["second"] # NoCommit /\ s["second"] # NoCommit
        /\ s["second"] # b["second"] /\ o["second"] = NoCommit
        /\ merged_view.wc_commit_ids["second"] = NoCommit

\* ------------------------------------------------------------------------
\* Sequences of MutableRepo operations in one transaction
\* ------------------------------------------------------------------------

\* The number of commits the store of the transaction may grow to.
MaxApiCommits == 3

\* The views set_view is given: any heads and public heads among the commits.
AnyHeadViews(st) ==
    {View(h, p, NoWorkspaces, NoRefs) : h \in SUBSET DOMAIN st, p \in SUBSET DOMAIN st}

\* The views of the repositories merge is given: antichains of heads.
HeadViews(st) ==
    {View(h, {root_commit_id}, NoWorkspaces, NoRefs) : h \in Antichains(st, DOMAIN st)}

\* ReadonlyRepo::init followed by start_transaction: a transaction on the
\* root view of a store that holds the root commit only.
InitRepo ==
    /\ store = <<RootCommit>>
    /\ op_store = <<>>
    /\ op_heads = {}
    /\ lock = NoProc
    /\ pc = [p \in Procs |-> IF p = "p1" THEN "in_tx" ELSE "idle"]
    /\ repo = [p \in Procs |-> 0]
    /\ unresolved = [p \in Procs |-> NoUnresolved]
    /\ tx = [p \in Procs |->
                IF p = "p1" THEN MutableRepo_new(0, <<root_commit_id>>, root_view)
                ELSE NoTx]
    /\ call = [op |-> "start_transaction"]

\* The MutableRepo is alive: not consumed, and no assertion has failed.
Alive == pc["p1"] = "in_tx" /\ ~tx["p1"].panicked

\* The step of p1 that leaves the MutableRepo r and is called op.
ApiStep(op, r) ==
    /\ tx' = [tx EXCEPT !["p1"] = r]
    /\ call' = [op |-> op]
    /\ UNCHANGED <<op_store, op_heads, lock, pc, repo, unresolved>>

\* mut_repo.write_commit(commit), for a new commit on any parents.
WriteCommit ==
    /\ Alive
    /\ Len(store) < MaxApiCommits
    /\ \E parents \in (SUBSET DOMAIN store) \ {{}} :
        LET c == Len(store) + 1
        IN  /\ store' = store_write_commit(store, PlainCommit(c, parents))
            /\ ApiStep("write_commit", add_head(store', tx["p1"], c))

\* mut_repo.add_head(commit)
AddHead ==
    /\ Alive
    /\ \E c \in DOMAIN store : ApiStep("add_head", add_head(store, tx["p1"], c))
    /\ UNCHANGED store

\* mut_repo.remove_head(id)
RemoveHead ==
    /\ Alive
    /\ \E c \in DOMAIN store : ApiStep("remove_head", remove_head(tx["p1"], c))
    /\ UNCHANGED store

\* mut_repo.add_public_head(commit)
AddPublicHead ==
    /\ Alive
    /\ \E c \in DOMAIN store :
        ApiStep("add_public_head", add_public_head(tx["p1"], c))
    /\ UNCHANGED store

\* mut_repo.remove_public_head(id)
RemovePublicHead ==
    /\ Alive
    /\ \E c \in DOMAIN store :
        ApiStep("remove_public_head", remove_public_head(tx["p1"], c))
    /\ UNCHANGED store

\* mut_repo.set_view(data)
SetView ==
    /\ Alive
    /\ \E data \in AnyHeadViews(store) : ApiStep("set_view", set_view(tx["p1"], data))
    /\ UNCHANGED store

\* mut_repo.merge(base_repo, other_repo)
MergeRepos ==
    /\ Alive
    /\ \E base \in HeadViews(store), other \in HeadViews(store) :
        ApiStep("merge",
                merge(store, tx["p1"], ReadonlyRepo(base, full_index(store)),
                      ReadonlyRepo(other, full_index(store))))
    /\ UNCHANGED store

\* mut_repo.view(): the cell is made clean.
ReadView ==
    /\ Alive
    /\ ApiStep("view", ensure_clean(store, tx["p1"]))
    /\ UNCHANGED store

\* mut_repo.consume(): the cell is made clean and the MutableRepo is gone.
Consume ==
    /\ Alive
    /\ tx' = [tx EXCEPT !["p1"] = ensure_clean(store, @)]
    /\ pc' = [pc EXCEPT !["p1"] = "consumed"]
    /\ call' = [op |-> "consume"]
    /\ UNCHANGED <<store, op_store, op_heads, lock, repo, unresolved>>

NextRepo ==
    \/ WriteCommit
    \/ AddHead
    \/ RemoveHead
    \/ AddPublicHead
    \/ RemovePublicHead
    \/ SetView
    \/ MergeRepos
    \/ ReadView
    \/ Consume

SpecRepo == InitRepo /\ [][NextRepo]_vars

\* C5: after any sequence of MutableRepo operations the heads of the view that
\* view() returns, and of the view that consume() returns, are an antichain:
\* no head is an ancestor of another head.
HeadsAreAntichain ==
    LET head_ids == view(store, tx["p1"]).head_ids
    IN  ~tx["p1"].panicked => heads(store, head_ids) = head_ids

\* ------------------------------------------------------------------------
\* Processes that load the repository, run transactions and publish them
\* ------------------------------------------------------------------------

\* The commands a transaction is started for.
Commands == {"check out commit", "edit commit", "describe commit",
             "point branch to commit", "undo operation", "duplicate commit",
             "new empty commit", "rebase commits", "abandon commit"}

\* The permutations of a finite set, as sequences.
Perms(S) ==
    {f \in [1..Cardinality(S) -> S] : \A i, j \in DOMAIN f : i # j => f[i] # f[j]}

\* A repository with one commit on the root that the default workspace has
\* checked out and the branch points at.
InitOps ==
    /\ store = <<RootCommit, PlainCommit(2, {root_commit_id})>>
    /\ op_store = <<Operation(<<>>,
                        View({2}, {root_commit_id},
                             [NoWorkspaces EXCEPT !["default"] = 2],
                             [NoRefs EXCEPT ![LocalBranch("main")] = Normal(2)]),
                        <<1, 2>>, OperationMetadata("initialize repo", 0, NoProc))>>
    /\ op_heads = {1}
    /\ lock = NoProc
    /\ pc = [p \in Procs |-> "idle"]
    /\ repo = [p \in Procs |-> 0]
    /\ unresolved = [p \in Procs |-> NoUnresolved]
    /\ tx = [p \in Procs |-> NoTx]
    /\ call = [op |-> "init"]

\* The commits a transaction sees.
visible(p) == ancestors(store, view(store, tx[p]).head_ids)

\* RepoLoader::load_at_head: the repository at the only op head, or the op
\* heads with the lock held when there are several.
LoadAtHead(p) ==
    /\ pc[p] \in {"idle", "loaded"}
    /\ IF Cardinality(op_heads) = 1
       THEN /\ repo' = [repo EXCEPT ![p] = CHOOSE h \in op_heads : TRUE]
            /\ pc' = [pc EXCEPT ![p] = "loaded"]
            /\ UNCHANGED <<lock, unresolved>>
       ELSE /\ lock = NoProc
            /\ \E heads_seq \in Perms(op_heads) :
                unresolved' = [unresolved EXCEPT ![p] =
                                    UnresolvedHeadRepo(p, heads_seq)]
            /\ lock' = unresolved'[p].locked_op_heads
            /\ pc' = [pc EXCEPT ![p] = "unresolved"]
            /\ UNCHANGED repo
    /\ UNCHANGED <<store, op_store, op_heads, tx, call>>

\* UnresolvedHeadRepo::resolve up to tx.write().leave_unpublished()
ResolveMerge(p) ==
    /\ pc[p] = "unresolved"
    /\ Len(op_store) < MaxOps
    /\ \E merged \in {resolve(store, op_store, unresolved[p].op_heads, p)} :
           /\ Len(merged.store) <= MaxCommits
           /\ ~merged.panicked
           /\ store' = merged.store
           /\ op_store' = Append(op_store, merged.op)
    /\ repo' = [repo EXCEPT ![p] = Len(op_store) + 1]
    /\ pc' = [pc EXCEPT ![p] = "merged"]
    /\ UNCHANGED <<op_heads, lock, tx, unresolved, call>>

\* A finish() that adds the merged operation to the op heads and leaves the
\* operations it merges among them.
ResolveFinish_keeping_heads(p) ==
    /\ pc[p] = "merged"
    /\ op_heads' = op_heads \cup {repo[p]}
    /\ lock' = NoProc
    /\ unresolved' = [unresolved EXCEPT ![p] = NoUnresolved]
    /\ pc' = [pc EXCEPT ![p] = "loaded"]
    /\ UNCHANGED <<store, op_store, repo, tx, call>>

\* locked_op_heads.finish(merged_repo.operation()): the merged operation
\* replaces the op heads and the lock is released.
ResolveFinish(p) ==
    /\ pc[p] = "merged"
    /\ op_heads' = {repo[p]}
    /\ lock' = NoProc
    /\ unresolved' = [unresolved EXCEPT ![p] = NoUnresolved]
    /\ pc' = [pc EXCEPT ![p] = "loaded"]
    /\ UNCHANGED <<store, op_store, repo, tx, call>>

\* repo.start_transaction(settings, description)
StartTransaction(p) ==
    /\ pc[p] = "loaded"
    /\ Len(op_store) < MaxOps
    /\ \E command \in Commands, arg \in {0} \cup DOMAIN op_store :
        /\ (command = "undo operation") = (arg # 0)
        /\ arg # 0 => Len(op_store[arg].parents) = 1
        /\ tx' = [tx EXCEPT ![p] =
                    start_transaction(op_store, repo[p],
                                      OperationMetadata(command, arg, p))]
    /\ pc' = [pc EXCEPT ![p] = "in_tx"]
    /\ UNCHANGED <<store, op_store, op_heads, lock, repo, unresolved, call>>

\* The step of the transaction of p that leaves the MutableRepo r.
TxStep(p, r) ==
    /\ tx' = [tx EXCEPT ![p] = r]
    /\ pc' = [pc EXCEPT ![p] = "mutated"]
    /\ UNCHANGED <<op_store, op_heads, lock, repo, unresolved, call>>

\* mut_repo.check_out(workspace_id, settings, commit)
TxCheckOut(p) ==
    /\ pc[p] = "in_tx" /\ tx[p].metadata.command = "check out commit"
    /\ Len(store) < MaxCommits
    /\ \E c \in visible(p) :
        /\ store' = store_write_commit(store, wc_commit_for(store, c))
        /\ TxStep(p, check_out(store', tx[p], "default", Len(store')))

\* mut_repo.edit(workspace_id, commit)
TxEdit(p) ==
    /\ pc[p] = "in_tx" /\ tx[p].metadata.command = "edit commit"
    /\ \E c \in visible(p) \ {root_commit_id, tx[p].view.wc_commit_ids["default"]} :
        TxStep(p, edit(store, tx[p], "default", c))
    /\ UNCHANGED store

\* mut_repo.rewrite_commit(settings, commit).set_description(..).write()
TxRewrite(p) ==
    /\ pc[p] = "in_tx" /\ tx[p].metadata.command = "describe commit"
    /\ Len(store) < MaxCommits
    /\ \E c \in visible(p) \ {root_commit_id} :
        /\ store' = store_write_commit(store, rewritten_commit(store, c))
        /\ TxStep(p, write_rewritten(store', tx[p], c, Len(store')))

\* mut_repo.set_local_branch(name, target) or remove_local_branch(name)
TxSetLocalBranch(p) ==
    /\ pc[p] = "in_tx" /\ tx[p].metadata.command = "point branch to commit"
    /\ \E target \in {Absent} \cup {Normal(c) : c \in visible(p)} :
        /\ target # tx[p].view.refs[LocalBranch("main")]
        /\ TxStep(p, set_local_branch(tx[p], "main", target))
    /\ UNCHANGED store

\* undo: tx.mut_repo().merge(&bad_repo, &parent_repo)
TxUndo(p) ==
    /\ pc[p] = "in_tx" /\ tx[p].metadata.command = "undo operation"
    /\ LET bad_op == tx[p].metadata.arg
           parent_op == op_store[bad_op].parents[1]
       IN  TxStep(p, merge(store, tx[p], load_at(op_store, bad_op),
                           load_at(op_store, parent_op)))
    /\ UNCHANGED store

\* mut_repo.rebase_descendants(settings)
TxRebase(p) ==
    /\ pc[p] = "mutated"
    /\ has_rewrites(tx[p]) /\ ~tx[p].panicked
    /\ LET rebased == rebase_descendants(store, tx[p])
       IN  /\ Len(rebased.store) <= MaxCommits
           /\ store' = rebased.store
           /\ TxStep(p, rebased.repo)

\* tx.write(): the operation is written, the op heads are not touched.
Write(p) ==
    /\ pc[p] = "mutated"
    /\ ~has_rewrites(tx[p]) /\ ~tx[p].panicked
    /\ Len(op_store) < MaxOps
    /\ op_store' = Append(op_store, transaction_write(store, tx[p]))
    /\ repo' = [repo EXCEPT ![p] = Len(op_store) + 1]
    /\ tx' = [tx EXCEPT ![p] = NoTx]
    /\ pc' = [pc EXCEPT ![p] = "written"]
    /\ op_heads' = written_op_heads(op_heads, op_store', Len(op_store'))
    /\ UNCHANGED <<store, lock, unresolved, call>>

\* UnpublishedOperation::publish: under the lock, the operation becomes an op
\* head and its parents stop being op heads.
Publish(p) ==
    /\ pc[p] = "written"
    /\ lock = NoProc
    /\ op_heads' = published_op_heads(op_heads, op_store, repo[p])
    /\ pc' = [pc EXCEPT ![p] = "loaded"]
    /\ UNCHANGED <<store, op_store, lock, repo, tx, unresolved, call>>

\* The transaction is dropped.
Drop(p) ==
    /\ pc[p] \in {"in_tx", "mutated"}
    /\ tx' = [tx EXCEPT ![p] = NoTx]
    /\ pc' = [pc EXCEPT ![p] = "loaded"]
    /\ UNCHANGED <<store, op_store, op_heads, lock, repo, unresolved, call>>

\* The process stops after tx.write() and before the op heads are updated.
LeaveUnpublished(p) ==
    /\ pc[p] = "written"
    /\ repo' = [repo EXCEPT ![p] = 0]
    /\ pc' = [pc EXCEPT ![p] = "idle"]
    /\ UNCHANGED <<store, op_store, op_heads, lock, tx, unresolved, call>>

\* The process has run its command: it has written an operation other than
\* a merge of op heads.
has_written(p) ==
    \E o \in DOMAIN op_store :
        /\ op_store[o].metadata.username = p
        /\ op_store[o].metadata.command # "resolve concurrent operations"

\* Concurrent processes, each a run of one command: it loads the repository
\* at the head, merging the op heads when there are several, runs one
\* transaction and publishes it, drops it, or stops before the publication;
\* after that it only loads.
NextOps ==
    \E p \in Procs :
        \/ LoadAtHead(p)
        \/ ResolveMerge(p)
        \/ ResolveFinish(p)
        \/ (~has_written(p) /\ StartTransaction(p)
                /\ tx'[p].metadata.command
                        \in {"check out commit", "edit commit", "describe commit",
                             "point branch to commit"})
        \/ TxCheckOut(p)
        \/ TxEdit(p)
        \/ TxRewrite(p)
        \/ TxSetLocalBranch(p)
        \/ TxRebase(p)
        \/ Write(p)
        \/ Publish(p)
        \/ Drop(p)
        \/ LeaveUnpublished(p)

SpecOps == InitOps /\ [][NextOps]_vars

\* The number of operations the one process of the undo scenarios writes,
\* the first operation included.
MaxTxOps == 4

\* One process that runs one transaction after the other: it describes
\* commits, checks out new commits and undoes operations.
NextTx ==
    \/ LoadAtHead("p1")
    \/ (Len(op_store) < MaxTxOps /\ StartTransaction("p1")
            /\ tx'["p1"].metadata.command
                \in {"check out commit", "describe commit", "undo operation"})
    \/ TxCheckOut("p1")
    \/ TxRewrite("p1")
    \/ TxUndo("p1")
    \/ TxRebase("p1")
    \/ Write("p1")
    \/ Publish("p1")

SpecTx == InitOps /\ [][NextTx]_vars

\* The operations that merged op heads.
merge_ops ==
    {m \in DOMAIN op_store :
        op_store[m].metadata.command = "resolve concurrent operations"}

\* The process is between get_heads returning Unresolved and finish.
resolving(p) == pc[p] \in {"unresolved", "merged"}

\* C2: when load_at_head finds k >= 2 op heads, resolve writes exactly one new
\* operation whose parents are all k observed heads, and after finish the op
\* heads are exactly that operation: none of the k old heads remains.
ResolveWritesOneMerge ==
    [][\A p \in Procs :
        /\ (pc[p] = "unresolved" /\ pc'[p] = "merged") =>
            /\ Len(unresolved[p].op_heads) >= 2
            /\ Range(unresolved[p].op_heads) = op_heads
            /\ Len(op_store') = Len(op_store) + 1
            /\ repo'[p] = Len(op_store')
            /\ op_store'[repo'[p]].parents \in Perms(op_heads)
        /\ (pc[p] = "merged" /\ pc'[p] = "loaded") =>
            /\ op_heads' = {repo[p]}
            /\ op_heads' \cap Range(unresolved[p].op_heads) = {}
            /\ Cardinality({m \in merge_ops :
                    Range(op_store[m].parents) = Range(unresolved[p].op_heads)}) = 1
      ]_vars

\* Two op heads were merged and the merge was finished.
ResolveWitness ==
    \E p \in Procs, m \in merge_ops :
        /\ pc[p] = "loaded" /\ repo[p] = m
        /\ op_heads = {m}
        /\ Len(op_store[m].parents) = 2

\* C3: the op-heads lock is held from the moment get_heads returns Unresolved
\* until finish: two processes that load a repository with the same op heads
\* never merge them at the same time, and the op heads end as a single head,
\* not as two competing merge operations.
LockHeldWhileResolving ==
    /\ \A p \in Procs : resolving(p) <=> lock = p
    /\ \A p, q \in Procs : (p # q /\ resolving(p)) => ~resolving(q)
    /\ \A m, n \in merge_ops :
        Range(op_store[m].parents) = Range(op_store[n].parents) => m = n
    /\ \A m \in merge_ops :
        (\A p \in Procs : ~(pc[p] = "merged" /\ repo[p] = m))
            => /\ op_heads \cap Range(op_store[m].parents) = {}
               /\ (\A p \in Procs : pc[p] = "loaded" /\ repo[p] = m
                        => Cardinality(op_heads) = 1)

\* One process holds the lock and has merged the op heads while the other has
\* published its operation and is about to load the repository.
LockWitness ==
    \E p, q \in Procs :
        /\ p # q
        /\ pc[p] = "merged" /\ lock = p
        /\ pc[q] = "loaded" /\ repo[q] \in op_heads
        /\ Cardinality(op_heads) = 2

\* The process takes a step inside a transaction: it starts one, mutates the
\* MutableRepo, writes the operation, drops the transaction or leaves the
\* written operation unpublished.
transaction_step(p) ==
    \/ pc[p] = "loaded" /\ pc'[p] = "in_tx"
    \/ pc[p] = "in_tx" /\ pc'[p] = "mutated"
    \/ pc[p] = "mutated" /\ pc'[p] = "mutated" /\ tx'[p] # tx[p]
    \/ pc[p] = "mutated" /\ pc'[p] = "written"
    \/ pc[p] \in {"in_tx", "mutated"} /\ pc'[p] = "loaded" /\ tx'[p] # tx[p]
    \/ pc[p] = "written" /\ pc'[p] = "idle"

\* C4: between start_transaction and publish nothing a transaction does is
\* visible to other loaders: the op heads and every operation already in the
\* operation store, the base operation and its view among them, are
\* unchanged by each MutableRepo mutation, by write, by dropping the
\* transaction and by leave_unpublished, and the ReadonlyRepo the transaction
\* started from still reads the same operation.
TransactionInvisibleUntilPublish ==
    [][\A p \in Procs :
        transaction_step(p) =>
            /\ op_heads' = op_heads
            /\ \A o \in DOMAIN op_store :
                    o \in DOMAIN op_store' /\ op_store'[o] = op_store[o]
            /\ pc'[p] # "written" => op_store' = op_store
            /\ pc'[p] \in {"in_tx", "mutated", "loaded"} => repo'[p] = repo[p]
            /\ \A q \in Procs \ {p} : repo'[q] = repo[q] /\ tx'[q] = tx[q]
      ]_vars

\* A process has written an operation that changed the view and has not
\* published it: the op heads are still the operation it started from.
UnpublishedWitness ==
    \E p \in Procs :
        /\ pc[p] = "written"
        /\ op_store[repo[p]].view # op_store[op_store[repo[p]].parents[1]].view
        /\ repo[p] \notin op_heads
        /\ op_heads = {1}

\* The merges of two operations T1 and T2 that both started from the same
\* operation O: T1 is the op head listed first.
concurrent_merges ==
    {m \in merge_ops :
        /\ Len(op_store[m].parents) = 2
        /\ \A i \in 1..2 : Len(op_store[op_store[m].parents[i]].parents) = 1
        /\ op_store[op_store[m].parents[1]].parents
                = op_store[op_store[m].parents[2]].parents}

\* The view of the operation resolve writes when the op heads of the merge m
\* are listed in the opposite order.
resolved_in_opposite_order(m) ==
    resolve(store, op_store,
            <<op_store[m].parents[2], op_store[m].parents[1]>>,
            op_store[m].metadata.username)

\* The workspaces whose working-copy commit T1 and T2 both changed, each to
\* another value.
workspaces_moved_by_both(m) ==
    LET T1 == op_store[op_store[m].parents[1]].view
        T2 == op_store[op_store[m].parents[2]].view
        O  == op_store[op_store[op_store[m].parents[1]].parents[1]].view
    IN  {w \in WorkspaceIds :
            /\ T1.wc_commit_ids[w] # O.wc_commit_ids[w]
            /\ T2.wc_commit_ids[w] # O.wc_commit_ids[w]
            /\ T1.wc_commit_ids[w] # T2.wc_commit_ids[w]}

\* view_merge(O.view, T1.view, T2.view) for the merge m: T1's view merged with
\* T2's on the base O, with the descendants of rewritten commits rebased.
view_merge_of(m) ==
    LET T1 == op_store[m].parents[1]
        T2 == op_store[m].parents[2]
        O  == op_store[T1].parents[1]
        merged == merge(store, start_transaction(op_store, T1, op_store[m].metadata),
                        load_at(op_store, O), load_at(op_store, T2))
    IN  consume(store, rebase_descendants(store, merged).repo).view

\* The view without the working-copy commits of the workspaces ws.
without_workspaces(v, ws) ==
    [v EXCEPT !.wc_commit_ids =
        [w \in WorkspaceIds |-> IF w \in ws THEN NoCommit ELSE @[w]]]

\* When two transactions T1 and T2 both started from the same operation and
\* both published, the next load merges them into one operation whose
\* view is view_merge(O.view, T1.view, T2.view) and is the same whichever of
\* the two is listed first.
MergeOrderIndependent ==
    \A m \in concurrent_merges :
        LET other == resolved_in_opposite_order(m)
        IN  (Len(other.store) <= MaxCommits /\ ~other.panicked)
                => /\ op_store[m].view = view_merge_of(m)
                   /\ op_store[m].view = other.op.view

\* C1: when two transactions T1 and T2 both started from the same operation
\* and both published, the next load merges them into one operation whose
\* view is view_merge(O.view, T1.view, T2.view) and is the same whichever of
\* the two is listed first, except for the working-copy commit of a
\* workspace that both moved to different commits.
MergeOrderIndependentButWorkspaces ==
    \A m \in concurrent_merges :
        LET other == resolved_in_opposite_order(m)
            ws == workspaces_moved_by_both(m)
        IN  (Len(other.store) <= MaxCommits /\ ~other.panicked)
                => /\ op_store[m].view = view_merge_of(m)
                   /\ without_workspaces(op_store[m].view, ws)
                        = without_workspaces(other.op.view, ws)

\* Two concurrent operations were merged, and the merge had work to do: each
\* of them changed the view it started from, in different ways.
ConcurrentMergeWitness ==
    \E m \in concurrent_merges :
        LET T1 == op_store[op_store[m].parents[1]].view
            T2 == op_store[op_store[m].parents[2]].view
            O  == op_store[op_store[op_store[m].parents[1]].parents[1]].view
        IN  /\ T1.head_ids # O.head_ids /\ T2.head_ids # O.head_ids
            /\ T1.head_ids # T2.head_ids
            /\ op_store[m].view.head_ids \notin {T1.head_ids, T2.head_ids}
            /\ Len(resolved_in_opposite_order(m).store) <= MaxCommits
            /\ op_heads = {m}

\* The operations that undo an operation O1 with a single parent O0.
undo_ops ==
    {u \in DOMAIN op_store : op_store[u].metadata.command = "undo operation"}

\* The commits visible in the view v.
visible_in(v) == ancestors(store, v.head_ids)

\* The commits that the operation O1 rewrote: X was visible before O1, and
\* after it a commit X2 with predecessor X is visible and X is not.
rewritten_by(O1) ==
    LET before == visible_in(op_store[op_store[O1].parents[1]].view)
        after  == visible_in(op_store[O1].view)
    IN  {xs \in (before \ after) \X (after \ before) :
            store[xs[2]].predecessors = <<xs[1]>>}

\* C10: undoing an operation O1 with parent O0 at the head O2 writes an
\* operation whose view is the three-way merge of O2's view with base
\* O1's view and other side O0's view, followed by rebase_descendants: when
\* O1 rewrote X into X2 and a later operation added a child C on X2, the
\* undo leaves a successor of C whose parent is X, and neither X2 nor C is
\* visible any more.
UndoRebasesLaterChildren ==
    \A u \in undo_ops :
        LET O1 == op_store[u].metadata.arg
            O0 == op_store[O1].parents[1]
            O2 == op_store[u].parents[1]
            merged == merge(store, start_transaction(op_store, O2, op_store[u].metadata),
                            load_at(op_store, O1), load_at(op_store, O0))
            undone == visible_in(op_store[u].view)
        IN  /\ op_store[u].view
                = consume(store, rebase_descendants(store, merged).repo).view
            /\ \A xs \in rewritten_by(O1) :
                \A C \in visible_in(op_store[O2].view) \ visible_in(op_store[O1].view) :
                    store[C].parents = <<xs[2]>> =>
                        /\ xs[2] \notin undone /\ C \notin undone
                        /\ xs[1] \in undone
                        /\ \E C2 \in undone :
                            /\ store[C2].predecessors = <<C>>
                            /\ store[C2].parents = <<xs[1]>>
                            /\ store[C2].change_id = store[C].change_id
                            /\ store[C2].tree = store[C].tree

\* An operation rewrote X, the next one added a child on the rewritten
\* commit, and the rewrite was then undone.
UndoWitness ==
    \E u \in undo_ops :
        LET O1 == op_store[u].metadata.arg
            O2 == op_store[u].parents[1]
        IN  /\ O2 # O1
            /\ \E xs \in rewritten_by(O1) :
                \E C \in visible_in(op_store[O2].view) \ visible_in(op_store[O1].view) :
                    store[C].parents = <<xs[2]>>

\* The MutableRepo of the merge m after T2 was merged into T1 on the base O
\* and before the descendants are rebased.
merged_repo_of(m) ==
    LET T1 == op_store[m].parents[1]
        T2 == op_store[m].parents[2]
        O  == op_store[T1].parents[1]
    IN  merge(store, start_transaction(op_store, T1, op_store[m].metadata),
              load_at(op_store, O), load_at(op_store, T2))

\* The commits X that the two operations merged by m both rewrote, with their
\* two different successors X1 and X2 of the same change id.
divergent_rewrites(m) ==
    {xs \in {<<a[1], a[2], b[2]>> :
                a \in rewritten_by(op_store[m].parents[1]),
                b \in rewritten_by(op_store[m].parents[2])} :
        /\ <<xs[1], xs[3]>> \in rewritten_by(op_store[m].parents[2])
        /\ xs[2] # xs[3]
        /\ store[xs[2]].change_id = store[xs[1]].change_id
        /\ store[xs[3]].change_id = store[xs[1]].change_id}

\* C11: when two concurrent operations started from the same operation each
\* rewrite the same commit X into different successors X1 and X2 of the same
\* change id, the merge records X as rewritten to both X1 and X2, both X1
\* and X2 are visible heads of the merged view, and X is not a head of it.
DivergentRewriteKeepsBoth ==
    \A m \in concurrent_merges :
        \A xs \in divergent_rewrites(m) :
            /\ merged_repo_of(m).rewritten_commits[xs[1]] = {xs[2], xs[3]}
            /\ {xs[2], xs[3]} \subseteq op_store[m].view.head_ids
            /\ xs[1] \notin op_store[m].view.head_ids
            /\ xs[1] \notin visible_in(op_store[m].view)

\* Two concurrent operations rewrote the same commit and were merged.
DivergentRewriteWitness ==
    \E m \in concurrent_merges :
        /\ divergent_rewrites(m) # {}
        /\ op_heads = {m}

\* ------------------------------------------------------------------------
\* Rewriting, duplicating and rebasing commits in one process
\* ------------------------------------------------------------------------

\* The commit cmd_duplicate writes for the original commit:
\* rewrite_commit(original).generate_new_change_id().set_parents(new_parents),
\* with no parent of the original duplicated along with it.
duplicated_commit(st, original) ==
    [Commit(st[original].parents, <<original>>, st[original].change_id,
            st[original].tree, st[original].description)
        EXCEPT !.change_id = Len(st) + 1]

\* cmd_duplicate for one commit: the duplicate is written and becomes a head.
TxDuplicate(p) ==
    /\ pc[p] = "in_tx" /\ tx[p].metadata.command = "duplicate commit"
    /\ Len(store) < MaxCommits
    /\ \E c \in visible(p) \ {root_commit_id} :
        /\ store' = store_write_commit(store, duplicated_commit(store, c))
        /\ TxStep(p, add_head(store', tx[p], Len(store')))

MaxRewriteOps == 4

\* One process that describes, duplicates and checks out commits.
NextRewrite ==
    \/ LoadAtHead("p1")
    \/ (Len(op_store) < MaxRewriteOps /\ StartTransaction("p1")
            /\ tx'["p1"].metadata.command
                \in {"check out commit", "describe commit", "duplicate commit"})
    \/ TxCheckOut("p1")
    \/ TxRewrite("p1")
    \/ TxDuplicate("p1")
    \/ TxRebase("p1")
    \/ Write("p1")
    \/ Publish("p1")

SpecRewrite == InitOps /\ [][NextRewrite]_vars

\* The commits the step writes that have a predecessor.
successors_written ==
    {c \in DOMAIN store' : c \notin DOMAIN store /\ store'[c].predecessors # <<>>}

parents_of(st, target_commits) == UNION {parent_ids(st, t) : t \in target_commits}

\* get_parents_for_insert_before without the test for a loop.
get_parents_for_insert_before_unchecked(st, target_commits) ==
    LET new_parents_commits == parents_of(st, target_commits)
    IN  IF root_commit_id \in target_commits
        THEN [error |-> TRUE, parents |-> <<>>]
        ELSE [error |-> FALSE,
              parents |-> SetToSeq(IF Cardinality(new_parents_commits) > 1
                                   THEN new_parents_commits \ {root_commit_id}
                                   ELSE new_parents_commits)]

\* get_parents_for_insert_before that keeps the root among several parents.
get_parents_for_insert_before_with_root(st, target_commits) ==
    LET new_parents_commits == parents_of(st, target_commits)
        dag_range == {x \in DOMAIN st :
                        /\ \E t \in target_commits : is_ancestor(st, t, x)
                        /\ \E q \in new_parents_commits : is_ancestor(st, x, q)}
    IN  IF root_commit_id \in target_commits \/ dag_range # {}
        THEN [error |-> TRUE, parents |-> <<>>]
        ELSE [error |-> FALSE, parents |-> SetToSeq(new_parents_commits)]

\* get_parents_for_insert_before: the targets must be rewritable (not the
\* root), no commit may lie between a target and a parent of a target
\* (new_children.dag_range_to(new_parents_commits) is empty), and the root is dropped
\* from several parents.
get_parents_for_insert_before(st, target_commits) ==
    LET new_parents_commits == parents_of(st, target_commits)
        dag_range == {x \in DOMAIN st :
                        /\ \E t \in target_commits : is_ancestor(st, t, x)
                        /\ \E q \in new_parents_commits : is_ancestor(st, x, q)}
    IN  IF root_commit_id \in target_commits \/ dag_range # {}
        THEN [error |-> TRUE, parents |-> <<>>]
        ELSE [error |-> FALSE,
              parents |-> SetToSeq(IF Cardinality(new_parents_commits) > 1
                                   THEN new_parents_commits \ {root_commit_id}
                                   ELSE new_parents_commits)]

\* The commit rebase_commit writes for old on the new parents: the same
\* change, tree and description.
rebase_commit(st, old, parents) ==
    Commit(parents, <<old>>, st[old].change_id, st[old].tree, st[old].description)

RECURSIVE rebase_children(_, _, _)
\* The loop of cmd_new over the new children: each is rebased onto the new
\* commit and recorded as rewritten.
rebase_children(tx_state, children, new_commit_id) ==
    IF children = <<>> THEN tx_state
    ELSE rebase_children(
            [store |-> store_write_commit(tx_state.store,
                        rebase_commit(tx_state.store, Head(children), <<new_commit_id>>)),
             repo |-> write_rewritten(
                        store_write_commit(tx_state.store,
                            rebase_commit(tx_state.store, Head(children), <<new_commit_id>>)),
                        tx_state.repo, Head(children),
                        commit_id_of(tx_state.store,
                            rebase_commit(tx_state.store, Head(children), <<new_commit_id>>)))],
            Tail(children), new_commit_id)

\* The commit cmd_new writes on the parents: empty, of a new change.
new_commit_on(st, parents) ==
    Commit(parents, <<>>, Len(st) + 1, UNION {st[q].tree : q \in Range(parents)}, 0)

\* cmd_new --insert-before after the parents are found: the new commit is
\* written and the targets are rebased onto it.
insert_before(st, r, parents, target_commits) ==
    rebase_children(
        [store |-> store_write_commit(st, new_commit_on(st, parents)),
         repo |-> add_head(store_write_commit(st, new_commit_on(st, parents)), r,
                           Len(st) + 1)],
        SetToSeq(target_commits), Len(st) + 1)

\* The number of operations of the insertion scenarios, the first included.
MaxInsertOps == 3

\* A repository of three commits, a chain or a fork on the root, with the
\* default workspace at the last commit and the branch at the second.
InitInsert ==
    /\ store \in {<<RootCommit, PlainCommit(2, {root_commit_id}), PlainCommit(3, {q})>> :
                    q \in {root_commit_id, 2}}
    /\ op_store = <<Operation(<<>>,
                        View(heads(store, DOMAIN store), {root_commit_id},
                             [NoWorkspaces EXCEPT !["default"] = 3],
                             [NoRefs EXCEPT ![LocalBranch("main")] = Normal(2)]),
                        <<1, 2, 3>>, OperationMetadata("initialize repo", 0, NoProc))>>
    /\ op_heads = {1}
    /\ lock = NoProc
    /\ pc = [p \in Procs |-> "idle"]
    /\ repo = [p \in Procs |-> 0]
    /\ unresolved = [p \in Procs |-> NoUnresolved]
    /\ tx = [p \in Procs |-> NoTx]
    /\ call = [op |-> "init"]

\* The command fails with a user error: the transaction is dropped and
\* nothing is written.
CommandError(p, request, destination) ==
    /\ tx' = [tx EXCEPT ![p] = NoTx]
    /\ pc' = [pc EXCEPT ![p] = "loaded"]
    /\ call' = [op |-> "error", request |-> request, destination |-> destination]
    /\ UNCHANGED <<store, op_store, op_heads, lock, repo, unresolved>>

\* cmd_new --insert-before up to the loop over the new children, in a store
\* of at most max_commits commits: the parents are found, or the command
\* fails; the new commit is written and the targets are rebased onto it.
NewInsertBefore(p, max_commits) ==
    /\ pc[p] = "in_tx" /\ tx[p].metadata.command = "new empty commit"
    /\ \E target_commits \in SUBSET visible(p) \ {{}} :
        \E found \in {get_parents_for_insert_before(store, target_commits)} :
            IF found.error
            THEN CommandError(p, target_commits, NoCommit)
            ELSE \E inserted \in {insert_before(store, tx[p], found.parents,
                                                target_commits)} :
                    /\ Len(inserted.store) <= max_commits
                    /\ store' = inserted.store
                    /\ tx' = [tx EXCEPT ![p] = inserted.repo]
                    /\ pc' = [pc EXCEPT ![p] = "inserted"]
                    /\ call' = [op |-> "new", request |-> target_commits,
                                destination |-> Len(store) + 1]
                    /\ UNCHANGED <<op_store, op_heads, lock, repo, unresolved>>

\* cmd_new --insert-before up to the loop over the new children.
TxNewInsertBefore(p) == NewInsertBefore(p, MaxCommits + 1)

\* The end of cmd_new, in a store of at most max_commits commits: the
\* descendants are rebased and the new commit is edited in the workspace.
NewFinish(p, max_commits) ==
    /\ pc[p] = "inserted"
    /\ \E rebased \in {rebase_descendants(store, tx[p])} :
        /\ Len(rebased.store) <= max_commits
        /\ store' = rebased.store
        /\ TxStep(p, edit(store', rebased.repo, "default", call.destination))

\* The end of cmd_new.
TxNewFinish(p) == NewFinish(p, MaxCommits + 1)

\* rebase -s source -d destination: refused for the root commit and for a
\* destination that is the source or a descendant of it; else the source is
\* rebased onto the destination and its descendants follow.
TxRebaseSource(p) ==
    /\ pc[p] = "in_tx" /\ tx[p].metadata.command = "rebase commits"
    /\ \E source \in visible(p), destination \in visible(p) :
        IF source = root_commit_id \/ is_ancestor(store, source, destination)
        THEN CommandError(p, {source}, destination)
        ELSE \E written \in {store_write_commit(store,
                                rebase_commit(store, source, <<destination>>))} :
             \E rebased \in {rebase_descendants(written,
                                write_rewritten(written, tx[p], source,
                                    commit_id_of(store,
                                        rebase_commit(store, source, <<destination>>))))} :
                /\ Len(rebased.store) <= MaxCommits + 1
                /\ store' = rebased.store
                /\ tx' = [tx EXCEPT ![p] = rebased.repo]
                /\ pc' = [pc EXCEPT ![p] = "mutated"]
                /\ call' = [op |-> "rebase", request |-> {source},
                            destination |-> destination]
                /\ UNCHANGED <<op_store, op_heads, lock, repo, unresolved>>

\* One process that inserts commits before others and rebases commits.
NextInsert ==
    \/ LoadAtHead("p1")
    \/ (Len(op_store) < MaxInsertOps /\ StartTransaction("p1")
            /\ tx'["p1"].metadata.command \in {"new empty commit", "rebase commits"})
    \/ TxNewInsertBefore("p1")
    \/ TxNewFinish("p1")
    \/ TxRebaseSource("p1")
    \/ Write("p1")
    \/ Publish("p1")

SpecInsert == InitInsert /\ [][NextInsert]_vars

\* The request of the step is refused.
refused == pc["p1"] = "in_tx" /\ pc'["p1"] = "loaded"

\* The request the step handles would put a commit above itself: a target of
\* the insertion is an ancestor of a parent of a target, or the source of
\* the rebase is an ancestor of the destination.
would_loop ==
    /\ pc["p1"] = "in_tx" /\ pc'["p1"] # "in_tx"
    /\ IF tx["p1"].metadata.command = "new empty commit"
       THEN \E t \in call'.request, u \in call'.request :
                \E q \in parent_ids(store, u) : is_ancestor(store, t, q)
       ELSE \E source \in call'.request :
                is_ancestor(store, source, call'.destination)

\* C13: no insertion or rebase makes a commit its own ancestor: a commit
\* written for a predecessor never has the predecessor among its ancestors;
\* a request that would do so (a rebase of a commit onto itself or its
\* descendant, an insertion before commits of which one is above a parent of
\* another) is refused, and a refused request writes no commit and no
\* operation and drops the transaction.
NoCommitItsOwnAncestor ==
    [][/\ \A c \in successors_written :
            \A old \in Range(store'[c].predecessors) : ~is_ancestor(store', old, c)
       /\ would_loop => refused
       /\ refused => /\ store' = store /\ op_store' = op_store
                     /\ op_heads' = op_heads /\ tx'["p1"] = NoTx
      ]_vars

\* A looping insertion was refused in a state that an accepted insertion had
\* rebased the targets in.
InsertWitness ==
    /\ call.op = "error" /\ call.destination = NoCommit
    /\ Len(op_store) > 1
    /\ \E c \in DOMAIN store : store[c].predecessors # <<>>
    /\ \E t \in call.request, u \in call.request :
            \E q \in parent_ids(store, u) : is_ancestor(store, t, q)

\* ------------------------------------------------------------------------
\* Abandoning commits
\* ------------------------------------------------------------------------

\* The number of operations of the abandon scenarios, the first included.
MaxAbandonOps == 2

\* The number of commits of the repositories commits are abandoned in.
MaxAbandonCommits == 4

RECURSIVE Trees(_)
\* Every store of n commits in which each commit but the root has one parent
\* among the commits before it.
Trees(n) ==
    IF n = 1 THEN {<<RootCommit>>}
    ELSE {Append(st, PlainCommit(n, {q})) : st \in Trees(n - 1), q \in 1..(n - 1)}

\* A repository of commits with one parent each, in every shape, with the
\* default workspace and the branch at any of them.
InitAbandon ==
    /\ store \in Trees(MaxAbandonCommits)
    /\ \E wc \in 2..MaxAbandonCommits, b \in 2..MaxAbandonCommits :
        op_store = <<Operation(<<>>,
                        View(heads(store, DOMAIN store), {root_commit_id},
                             [NoWorkspaces EXCEPT !["default"] = wc],
                             [NoRefs EXCEPT ![LocalBranch("main")] = Normal(b)]),
                        full_index(store),
                        OperationMetadata("initialize repo", 0, NoProc))>>
    /\ op_heads = {1}
    /\ lock = NoProc
    /\ pc = [p \in Procs |-> "idle"]
    /\ repo = [p \in Procs |-> 0]
    /\ unresolved = [p \in Procs |-> NoUnresolved]
    /\ tx = [p \in Procs |-> NoTx]
    /\ call = [op |-> "init"]

\* mut_repo.record_abandoned_commit(commit.id()) for one more commit.
TxAbandon(p) ==
    /\ pc[p] \in {"in_tx", "mutated"} /\ tx[p].metadata.command = "abandon commit"
    /\ \E c \in visible(p) \ ({root_commit_id} \cup tx[p].abandoned_commits) :
        TxStep(p, record_abandoned_commit(tx[p], c))
    /\ UNCHANGED store

\* One process that abandons commits and rebases their descendants.
NextAbandon ==
    \/ LoadAtHead("p1")
    \/ (Len(op_store) < MaxAbandonOps /\ StartTransaction("p1")
            /\ tx'["p1"].metadata.command = "abandon commit")
    \/ TxAbandon("p1")
    \/ TxRebase("p1")
    \/ Write("p1")
    \/ Publish("p1")

SpecAbandon == InitAbandon /\ [][NextAbandon]_vars

\* The step is the rebase_descendants of the transaction.
rebase_step ==
    /\ pc["p1"] = "mutated" /\ pc'["p1"] = "mutated"
    /\ has_rewrites(tx["p1"]) /\ ~has_rewrites(tx'["p1"])

\* The transaction has recorded only B as abandoned, B is the only child of
\* A and C the only descendant of B.
abandoned_mid_chain(A, B, C) ==
    /\ tx["p1"].abandoned_commits = {B}
    /\ tx["p1"].rewritten_commits = NoRewrites
    /\ store[B].parents = <<A>> /\ store[C].parents = <<B>>
    /\ {c \in visible("p1") : is_ancestor(store, B, c)} = {B, C}

\* C14: on a chain A <- B <- C with B recorded as abandoned,
\* rebase_descendants rebases one commit: it writes one commit C' with the
\* parent A and the tree and change of C, B and C are no longer heads while C'
\* is, and every workspace that was at B is at A.
AbandonMidChain ==
    [][\A A, B, C \in DOMAIN store :
        (rebase_step /\ abandoned_mid_chain(A, B, C)) =>
            /\ Cardinality(rebase_descendants(store, tx["p1"]).rebased) = 1
            /\ Len(store') = Len(store) + 1
            /\ store'[Len(store')] =
                    Commit(<<A>>, <<C>>, store[C].change_id, store[C].tree,
                           store[C].description)
            /\ view(store', tx'["p1"]).head_ids \cap {B, C} = {}
            /\ Len(store') \in view(store', tx'["p1"]).head_ids
            /\ \A w \in WorkspaceIds :
                    tx["p1"].view.wc_commit_ids[w] = B
                        => tx'["p1"].view.wc_commit_ids[w] = A
      ]_vars

\* B was abandoned between A, which is not the root, and C; C was rebased
\* onto A and the workspace that was at B is at A.
AbandonWitness ==
    /\ pc["p1"] = "mutated" /\ ~has_rewrites(tx["p1"])
    /\ tx["p1"].metadata.command = "abandon commit"
    /\ Len(store) > 4
    /\ store[3].parents = <<2>> /\ store[4].parents = <<3>>
    /\ store[Len(store)].parents = <<2>> /\ store[Len(store)].predecessors = <<4>>
    /\ op_store[1].view.wc_commit_ids["default"] = 3
    /\ tx["p1"].view.wc_commit_ids["default"] = 2
    /\ Len(store) \in view(store, tx["p1"]).head_ids

\* ------------------------------------------------------------------------
\* A rewritten branch target, from the rewrite to the publication
\* ------------------------------------------------------------------------

\* The step rewrites a commit in a describe transaction.
rewrite_step ==
    /\ pc["p1"] = "in_tx" /\ pc'["p1"] = "mutated"
    /\ tx["p1"].metadata.command = "describe commit"
    /\ Len(store') = Len(store) + 1

\* The step publishes the operation of a describe transaction.
publish_step ==
    /\ pc["p1"] = "written" /\ pc'["p1"] = "loaded"
    /\ op_store[repo["p1"]].metadata.command = "describe commit"

\* The successors of A that the operation op_id has and the operation before
\* it has not.
rewritten_in(op_id, A) ==
    {c \in Range(op_store[op_id].index) :
        /\ c \notin Range(op_store[op_store[op_id].parents[1]].index)
        /\ store[c].predecessors = <<A>>}

\* A2 stands where A stood among the heads hs, given the heads before: as
\* a head when every_case or when A had no descendant; else as a commit the
\* heads reach.
stands_for(hs, before, A, A2, every_case) ==
    /\ A \notin ancestors(store', hs)
    /\ A2 \in ancestors(store', hs)
    /\ (every_case \/ ~\E d \in ancestors(store, before) \ {A} : is_ancestor(store, A, d))
            => A2 \in hs

\* The steps of a transaction that rewrites the target A of branch main to
\* A2: the rewrite records A -> {A2} and leaves the branch at A; the rebase
\* moves the branch to A2, puts A2 where A stood and empties the records; the
\* operation that is published has the branch at A2 and A2 where A stood.
rewritten_branch_steps(every_case) ==
    /\ rewrite_step =>
            \A A \in DOMAIN store :
                (/\ store'[Len(store')].predecessors = <<A>>
                 /\ tx["p1"].view.refs[LocalBranch("main")] = Normal(A))
                => /\ tx'["p1"].rewritten_commits[A] = {Len(store')}
                   /\ tx'["p1"].view.refs[LocalBranch("main")] = Normal(A)
    /\ rebase_step =>
            \A A, A2 \in DOMAIN store :
                (/\ tx["p1"].rewritten_commits[A] = {A2}
                 /\ tx["p1"].view.refs[LocalBranch("main")] = Normal(A))
                => /\ tx'["p1"].view.refs[LocalBranch("main")] = Normal(A2)
                   /\ stands_for(view(store', tx'["p1"]).head_ids,
                                 op_store[repo["p1"]].view.head_ids, A, A2, every_case)
                   /\ tx'["p1"].rewritten_commits = NoRewrites
                   /\ tx'["p1"].abandoned_commits = {}
    /\ publish_step =>
            \A A \in DOMAIN store : \A A2 \in rewritten_in(repo["p1"], A) :
                op_store[op_store[repo["p1"]].parents[1]].view.refs[LocalBranch("main")]
                        = Normal(A)
                => /\ op_heads' = {repo["p1"]}
                   /\ op_store[repo["p1"]].view.refs[LocalBranch("main")] = Normal(A2)
                   /\ stands_for(op_store[repo["p1"]].view.head_ids,
                                 op_store[op_store[repo["p1"]].parents[1]].view.head_ids,
                                 A, A2, every_case)

\* The statement with A' a head in every case: when the target A of branch
\* main is rewritten to A', the record holds A -> {A'} during the
\* transaction, and after the rebase and the publication the branch points at
\* A', A' is a head, A is not, and the record is empty.
RewrittenBranchFollows == [][rewritten_branch_steps(TRUE)]_vars

\* C15: when the target A of branch main is rewritten to A' in a
\* transaction, the record holds A -> {A'} during the transaction while the
\* branch still points at A; after the rebase and the publication the branch
\* points at A', the record is empty, A is no longer in the view, and A' is:
\* as a head when A had no descendants, below the rebased descendants of A
\* otherwise.
RewrittenBranchFollowsBelowDescendants == [][rewritten_branch_steps(FALSE)]_vars

\* The operation at the op head rewrote the target of the branch, which had a
\* descendant: the branch points at the successor, which is not a head.
RewrittenBranchWitness ==
    /\ pc["p1"] = "loaded" /\ repo["p1"] > 1 /\ op_heads = {repo["p1"]}
    /\ op_store[repo["p1"]].metadata.command = "describe commit"
    /\ \E A \in DOMAIN store : \E A2 \in rewritten_in(repo["p1"], A) :
        /\ op_store[op_store[repo["p1"]].parents[1]].view.refs[LocalBranch("main")]
                = Normal(A)
        /\ op_store[repo["p1"]].view.refs[LocalBranch("main")] = Normal(A2)
        /\ A2 \notin op_store[repo["p1"]].view.head_ids
        /\ A2 \in ancestors(store, op_store[repo["p1"]].view.head_ids)

\* ------------------------------------------------------------------------
\* The trie of ids and its shortest unique prefixes
\* ------------------------------------------------------------------------

\* The elements of keys.
Alphabet == {"a", "b"}

\* The length of the longest key.
MaxKeyLen == 3

\* The number of keys a trie holds.
MaxKeys == 3

RECURSIVE KeysOfLen(_)
KeysOfLen(n) ==
    IF n = 0 THEN {<<>>}
    ELSE {Append(k, x) : k \in KeysOfLen(n - 1), x \in Alphabet}

\* The keys: the sequences of at most MaxKeyLen elements.
Keys == UNION {KeysOfLen(n) : n \in 0..MaxKeyLen}

\* Option<V>::None
NoValue == 0

\* Trie::new
Trie_new == [key_prefix |-> <<>>, value |-> NoValue, next_level |-> <<>>]

\* slice::starts_with
starts_with(key, prefix) ==
    Len(prefix) <= Len(key) /\ SubSeq(key, 1, Len(prefix)) = prefix

\* Trie::len_common_prefix
len_common_prefix(left, right) ==
    Max({n \in 0..Min({Len(left), Len(right)}) :
            SubSeq(left, 1, n) = SubSeq(right, 1, n)})

\* The split of insert that leaves the value of the trie behind.
Trie_split_without_value(t, common) ==
    [key_prefix |-> SubSeq(t.key_prefix, 1, common),
     value |-> NoValue,
     next_level |-> (t.key_prefix[common + 1] :>
                        [key_prefix |-> SubSeq(t.key_prefix, common + 2, Len(t.key_prefix)),
                         value |-> NoValue,
                         next_level |-> t.next_level])]

\* The split of insert: the trie with the key prefix cut after common
\* elements, its value and next level moved to the one subtrie.
Trie_split(t, common) ==
    [key_prefix |-> SubSeq(t.key_prefix, 1, common),
     value |-> NoValue,
     next_level |-> (t.key_prefix[common + 1] :>
                        [key_prefix |-> SubSeq(t.key_prefix, common + 2, Len(t.key_prefix)),
                         value |-> t.value,
                         next_level |-> t.next_level])]

RECURSIVE Trie_insert(_, _, _)
\* Trie::insert; the trie it leaves.
Trie_insert(t, key, value) ==
    IF t.key_prefix = <<>> /\ t.value = NoValue /\ DOMAIN t.next_level = {}
    THEN [key_prefix |-> key, value |-> value, next_level |-> <<>>]
    ELSE IF starts_with(key, t.key_prefix)
    THEN IF Len(key) = Len(t.key_prefix)
         THEN [t EXCEPT !.value = value]
         ELSE [t EXCEPT !.next_level =
                    (key[Len(t.key_prefix) + 1] :>
                        Trie_insert(IF key[Len(t.key_prefix) + 1] \in DOMAIN t.next_level
                                    THEN t.next_level[key[Len(t.key_prefix) + 1]]
                                    ELSE Trie_new,
                                    SubSeq(key, Len(t.key_prefix) + 2, Len(key)), value))
                    @@ t.next_level]
    ELSE Trie_insert(Trie_split(t, len_common_prefix(key, t.key_prefix)), key, value)

\* The match on the result of the next trie without the element that leads
\* to the next trie.
after_next_trie_short(t, n) ==
    IF n = 0
    THEN IF Cardinality(DOMAIN t.next_level) = 1 /\ t.value = NoValue
         THEN 0
         ELSE Len(t.key_prefix) + 1
    ELSE Len(t.key_prefix) + n

\* The match on the result of the next trie in shortest_unique_prefix_len.
after_next_trie(t, n) ==
    IF n = 0
    THEN IF Cardinality(DOMAIN t.next_level) = 1 /\ t.value = NoValue
         THEN 0
         ELSE Len(t.key_prefix) + 1
    ELSE Len(t.key_prefix) + n + 1

RECURSIVE shortest_unique_prefix_len(_, _)
\* Trie::shortest_unique_prefix_len
shortest_unique_prefix_len(t, key) ==
    IF len_common_prefix(key, t.key_prefix) < Len(t.key_prefix)
    THEN len_common_prefix(key, t.key_prefix) + 1
    ELSE IF Len(key) = Len(t.key_prefix)
    THEN IF DOMAIN t.next_level = {} THEN 0 ELSE Len(key) + 1
    ELSE IF key[Len(t.key_prefix) + 1] \notin DOMAIN t.next_level
    THEN IF DOMAIN t.next_level = {} THEN Len(t.key_prefix)
         ELSE Len(t.key_prefix) + 1
    ELSE after_next_trie(t,
            shortest_unique_prefix_len(t.next_level[key[Len(t.key_prefix) + 1]],
                SubSeq(key, Len(t.key_prefix) + 2, Len(key))))

\* An empty trie.
InitTrie ==
    /\ store = <<RootCommit>>
    /\ InitNoOps
    /\ tx = [p \in Procs |-> NoTx]
    /\ call = [op |-> "new", trie |-> Trie_new, keys |-> {}, key |-> <<>>, len |-> 0]

\* trie.insert(key, value)
TrieInsert ==
    /\ \E key \in Keys :
        /\ Cardinality(call.keys \cup {key}) <= MaxKeys
        /\ call' = [op |-> "insert", trie |-> Trie_insert(call.trie, key, 1),
                 keys |-> call.keys \cup {key}, key |-> key, len |-> 0]
    /\ UNCHANGED <<store, op_store, op_heads, lock, pc, repo, tx, unresolved>>

\* trie.shortest_unique_prefix_len(key) for a key of the trie
TrieShortestUniquePrefixLen ==
    /\ call.op \in {"insert", "shortest_unique_prefix_len"}
    /\ \E key \in call.keys :
        call' = [call EXCEPT !.op = "shortest_unique_prefix_len", !.key = key,
                    !.len = shortest_unique_prefix_len(call.trie, key)]
    /\ UNCHANGED <<store, op_store, op_heads, lock, pc, repo, tx, unresolved>>

NextTrie == TrieInsert \/ TrieShortestUniquePrefixLen

SpecTrie == InitTrie /\ [][NextTrie]_vars

\* The first n elements of the key, all of it when it is shorter.
first_elements(key, n) == SubSeq(key, 1, Min({n, Len(key)}))

\* Another key of K has the same first n elements as k.
shared_by_another(K, k, n) ==
    \E other \in K \ {k} : Len(other) >= n /\ first_elements(other, n) = first_elements(k, n)

\* C16: for the keys K inserted into the trie and k in K,
\* shortest_unique_prefix_len(k) is the smallest n such that no other key of K
\* has the same first n elements as k, and len(k) + 1 when another key of K
\* extends k.
ShortestUniquePrefix ==
    call.op = "shortest_unique_prefix_len" =>
        IF shared_by_another(call.keys, call.key, Len(call.key))
        THEN call.len = Len(call.key) + 1
        ELSE /\ call.len \in 0..Len(call.key)
             /\ ~shared_by_another(call.keys, call.key, call.len)
             /\ \A n \in 0..(call.len - 1) : shared_by_another(call.keys, call.key, n)

\* The prefix of a key that shares elements with two other keys was asked
\* for, and is shorter than the key.
TrieWitness ==
    /\ call.op = "shortest_unique_prefix_len"
    /\ Cardinality(call.keys) = 3
    /\ call.len > 1 /\ call.len < Len(call.key)

\* ------------------------------------------------------------------------
\* Annotation of a file over the history of a commit
\* ------------------------------------------------------------------------

\* The number of lines of the longest file.
MaxLines == 2

\* The lines of files: all alike, so that files differ in their number of
\* lines and a diff by line has several longest matchings.
Lines == {"x"}

RECURSIVE LinesOfLen(_)
LinesOfLen(n) ==
    IF n = 0 THEN {<<>>}
    ELSE {Append(k, x) : k \in LinesOfLen(n - 1), x \in Lines}

\* The value of the path in a tree: absent, or a file of lines.
AbsentFile == [present |-> FALSE, lines |-> <<>>]

FileValues ==
    {AbsentFile} \cup
        {[present |-> TRUE, lines |-> l] : l \in UNION {LinesOfLen(n) : n \in 0..MaxLines}}

\* f on the part S of its domain.
Restrict(f, S) == [x \in S |-> f[x]]

\* get_file_contents that takes an absent path for an empty file.
get_file_contents_absent_empty(file_value, fault, cut) ==
    IF fault = "materialize"
    THEN [error |-> TRUE, found |-> FALSE, contents |-> <<>>, read_failed |-> FALSE]
    ELSE IF fault = "read"
    THEN [error |-> FALSE, found |-> TRUE,
          contents |-> SubSeq(file_value.lines, 1, cut), read_failed |-> TRUE]
    ELSE [error |-> FALSE, found |-> TRUE, contents |-> file_value.lines,
          read_failed |-> FALSE]

\* get_file_contents on the file value: None for an absent path, an error
\* from the tree or the materialization; an error of read_to_end is mapped
\* and dropped, and the contents read so far are returned.
get_file_contents(file_value, fault, cut) ==
    IF ~file_value.present
    THEN [error |-> FALSE, found |-> FALSE, contents |-> <<>>, read_failed |-> FALSE]
    ELSE IF fault = "materialize"
    THEN [error |-> TRUE, found |-> FALSE, contents |-> <<>>, read_failed |-> FALSE]
    ELSE IF fault = "read"
    THEN [error |-> FALSE, found |-> TRUE,
          contents |-> SubSeq(file_value.lines, 1, cut), read_failed |-> TRUE]
    ELSE [error |-> FALSE, found |-> TRUE, contents |-> file_value.lines,
          read_failed |-> FALSE]

\* The outcomes of reading the file value: without a fault, and while no
\* fault has happened, with an error of the materialization or with a read
\* that fails after cut lines.
reads(file_value, faulted) ==
    {get_file_contents(file_value, "none", 0)} \cup
        IF faulted \/ ~file_value.present THEN {}
        ELSE {get_file_contents(file_value, "materialize", 0)} \cup
             {get_file_contents(file_value, "read", cut) :
                cut \in 0..(Len(file_value.lines) - 1)}

\* PartialResults::new
PartialResults_new(starting_commit_id, num_lines) ==
    [original_line_map |-> <<>>,
     local_line_map |-> (starting_commit_id :> [i \in 0..(num_lines - 1) |-> i]),
     file_cache |-> <<>>]

\* PartialResults::forward_to_new_commit
forward_to_new_commit(results, old_commit_id, old_local_line_number, new_commit_id, new_local_line_number) ==
    IF old_commit_id \notin DOMAIN results.local_line_map
    THEN results
    ELSE IF old_local_line_number \notin DOMAIN results.local_line_map[old_commit_id]
    THEN results
    ELSE [results EXCEPT !.local_line_map =
            (old_commit_id :>
                Restrict(results.local_line_map[old_commit_id],
                         DOMAIN results.local_line_map[old_commit_id]
                            \ {old_local_line_number}))
            @@ (new_commit_id :>
                    ((new_local_line_number :>
                        results.local_line_map[old_commit_id][old_local_line_number])
                     @@ (IF new_commit_id \in DOMAIN results.local_line_map
                         THEN results.local_line_map[new_commit_id]
                         ELSE <<>>)))
            @@ results.local_line_map]

\* PartialResults::drain_remaining_for_commit_id
drain_remaining_for_commit_id(results, commit_id) ==
    [original_line_map |->
        IF commit_id \in DOMAIN results.local_line_map
        THEN [n \in Range(results.local_line_map[commit_id]) |-> commit_id]
                @@ results.original_line_map
        ELSE results.original_line_map,
     local_line_map |->
        Restrict(results.local_line_map, DOMAIN results.local_line_map \ {commit_id}),
     file_cache |->
        Restrict(results.file_cache, DOMAIN results.file_cache \ {commit_id})]

\* The line numbers of a file of n lines.
line_numbers(contents) == 0..(Len(contents) - 1)

\* The matchings of lines of the two contents: equal lines, in the same
\* order in both.
line_matchings(current_contents, parent_contents) ==
    {m \in SUBSET (line_numbers(current_contents) \X line_numbers(parent_contents)) :
        /\ \A p \in m : current_contents[p[1] + 1] = parent_contents[p[2] + 1]
        /\ \A p, q \in m : (p[1] < q[1]) <=> (p[2] < q[2])}

\* get_same_line_map: the lines of the Matching hunks of a diff by line, which
\* is any of the longest matchings.
get_same_line_map(current_contents, parent_contents) ==
    {m \in line_matchings(current_contents, parent_contents) :
        \A other \in line_matchings(current_contents, parent_contents) :
            Cardinality(other) <= Cardinality(m)}

RECURSIVE forward_same_lines(_, _, _, _)
\* The loop of process_files_in_commits over the same lines.
forward_same_lines(results, current_id, parent_id, same_lines) ==
    IF same_lines = {} THEN results
    ELSE LET line == CHOOSE p \in same_lines : TRUE
         IN  forward_same_lines(
                forward_to_new_commit(results, current_id, line[1], parent_id, line[2]),
                current_id, parent_id, same_lines \ {line})

\* PartialResults::load_file_into_cache: every way it can leave the run; a
\* cached file is not read again.
load_file_into_cache(run, files, commit_id) ==
    IF run.outcome # "running" \/ commit_id \in DOMAIN run.results.file_cache
    THEN {run}
    ELSE {IF read.error THEN [run EXCEPT !.outcome = "BackendError", !.faulted = TRUE]
          ELSE IF ~read.found THEN run
          ELSE [run EXCEPT !.results.file_cache = (commit_id :> read.contents) @@ @,
                           !.faulted = @ \/ read.read_failed,
                           !.read_failed = @ \/ read.read_failed] :
            read \in reads(files[commit_id], run.faulted)}

\* process_files_in_commits: every way it can leave the run; it panics when
\* the file is in the cache for neither commit.
process_files_in_commits(run, files, current_id, parent_id) ==
    UNION {IF loaded.outcome # "running" THEN {loaded}
           ELSE IF {current_id, parent_id} \subseteq DOMAIN loaded.results.file_cache
           THEN {[loaded EXCEPT !.results =
                        forward_same_lines(@, current_id, parent_id, same_lines)] :
                    same_lines \in get_same_line_map(
                                    loaded.results.file_cache[current_id],
                                    loaded.results.file_cache[parent_id])}
           ELSE {[loaded EXCEPT !.outcome = "panic"]} :
        loaded \in UNION {load_file_into_cache(first, files, parent_id) :
                            first \in load_file_into_cache(run, files, current_id)}}

RECURSIVE process_commit(_, _, _, _)
\* process_commit on every run of runs: the edges one after the other, then
\* the drain of what is left for the commit.
process_commit(runs, files, current_id, edges) ==
    IF edges = <<>>
    THEN {IF run.outcome # "running" THEN run
          ELSE [run EXCEPT !.results = drain_remaining_for_commit_id(@, current_id),
                           !.processed = @ + 1] : run \in runs}
    ELSE process_commit(
            UNION {process_files_in_commits(run, files, current_id, Head(edges)) :
                    run \in runs},
            files, current_id, Tail(edges))

\* The revset of process_commits: the starting commit and its ancestors that
\* touch the file.
annotate_revset(st, touched, starting_commit_id) ==
    {starting_commit_id} \cup (ancestors(st, {starting_commit_id}) \cap touched)

\* The edges of iter_graph for a commit: the closest commits of the revset
\* below it.
graph_edges(st, revset, commit_id) ==
    SetToSeq(heads(st, (ancestors(st, {commit_id}) \ {commit_id}) \cap revset))

\* convert_to_results that leaves out the lines without an entry.
convert_to_results_known(results, original_contents) ==
    [panicked |-> FALSE,
     file_annotations |->
        [i \in 1..Cardinality(line_numbers(original_contents)
                                \cap DOMAIN results.original_line_map) |->
            <<results.original_line_map[
                    CHOOSE n \in DOMAIN results.original_line_map :
                        Cardinality({k \in DOMAIN results.original_line_map : k < n})
                            = i - 1],
              original_contents[i]>>]]

\* PartialResults::convert_to_results: one pair per line of the original
\* contents; the unwrap panics for a line without an entry.
convert_to_results(results, original_contents) ==
    IF line_numbers(original_contents) \subseteq DOMAIN results.original_line_map
    THEN [panicked |-> FALSE,
          file_annotations |->
            [i \in 1..Len(original_contents) |->
                <<results.original_line_map[i - 1], original_contents[i]>>]]
    ELSE [panicked |-> TRUE, file_annotations |-> <<>>]

\* A commit may touch the file when its file is not that of all its parents,
\* and does when it is that of none.
may_touch(st, files, c) == \E q \in parent_ids(st, c) : files[q] # files[c]

must_touch(st, files, c) ==
    IF parent_ids(st, c) = {} THEN files[c].present
    ELSE \A q \in parent_ids(st, c) : files[q] # files[c]

\* The smallest history in which two commits forward lines to the same
\* parent: a merge of two children of one commit.
Diamond ==
    <<RootCommit, PlainCommit(2, {root_commit_id}), PlainCommit(3, {2}),
      PlainCommit(4, {2}), PlainCommit(5, {3, 4})>>

\* The histories: every commit graph of the size of the diamond on one commit
\* above the root.
Histories ==
    {st \in Dags(Len(Diamond)) :
        \A c \in 3..Len(st) : root_commit_id \notin parent_ids(st, c)}

\* A history, the file in each of its commits, and the commits that touch it.
InitAnnotate ==
    /\ store \in Histories
    /\ InitNoOps
    /\ tx = [p \in Procs |-> NoTx]
    /\ \E files \in [DOMAIN store -> FileValues] :
        /\ files[root_commit_id] = AbsentFile
        /\ \E touched \in SUBSET {c \in DOMAIN store : may_touch(store, files, c)} :
            /\ {c \in DOMAIN store : must_touch(store, files, c)} \subseteq touched
            /\ call = [op |-> "init", files |-> files, touched |-> touched,
                       num_lines |-> 0, original_contents |-> <<>>, revset |-> <<>>,
                       run |-> [outcome |-> "none", results |-> PartialResults_new(0, 0),
                                processed |-> 0, faulted |-> FALSE, read_failed |-> FALSE],
                       file_annotations |-> <<>>]

\* get_annotation_for_file up to process_commits: the file of the starting
\* commit is read; FileNotFound when it is not there.
GetAnnotationForFile ==
    /\ call.op = "init"
    /\ \E starting_commit_id \in {Len(store)} :
       \E read \in reads(call.files[starting_commit_id], FALSE) :
        call' = [call EXCEPT
            !.op = "get_annotation_for_file",
            !.original_contents = read.contents,
            !.num_lines = Len(read.contents),
            !.revset = IF read.found
                       THEN Reverse(SetToSeq(annotate_revset(store, call.touched,
                                                             starting_commit_id)))
                       ELSE <<>>,
            !.run = [outcome |-> IF read.error THEN "BackendError"
                                 ELSE IF read.found THEN "running"
                                 ELSE "FileNotFound",
                     results |-> PartialResults_new(starting_commit_id,
                                                    Len(read.contents)),
                     processed |-> 0,
                     faulted |-> read.error \/ read.read_failed,
                     read_failed |-> read.read_failed]]
    /\ UNCHANGED <<store, op_store, op_heads, lock, pc, repo, tx, unresolved>>

\* One turn of the loop of process_commits: the next commit of the graph is
\* processed, and the loop ends when every line has its commit.
ProcessCommit ==
    /\ call.run.outcome = "running" /\ call.revset # <<>>
    /\ \E run \in process_commit({call.run}, call.files, Head(call.revset),
                                 graph_edges(store, Range(call.revset), Head(call.revset))) :
        call' = [call EXCEPT
            !.op = "process_commit",
            !.run = run,
            !.revset = IF run.outcome = "running"
                            /\ Cardinality(DOMAIN run.results.original_line_map)
                                    < call.num_lines
                       THEN Tail(call.revset) ELSE <<>>]
    /\ UNCHANGED <<store, op_store, op_heads, lock, pc, repo, tx, unresolved>>

\* The end of get_annotation_for_file: the results are converted.
ConvertToResults ==
    /\ call.run.outcome = "running" /\ call.revset = <<>>
    /\ \E converted \in {convert_to_results(call.run.results, call.original_contents)} :
        call' = [call EXCEPT
            !.op = "convert_to_results",
            !.run.outcome = IF converted.panicked THEN "panic" ELSE "Ok",
            !.file_annotations = converted.file_annotations]
    /\ UNCHANGED <<store, op_store, op_heads, lock, pc, repo, tx, unresolved>>

NextAnnotate == GetAnnotationForFile \/ ProcessCommit \/ ConvertToResults

SpecAnnotate == InitAnnotate /\ [][NextAnnotate]_vars

\* C17: whenever get_annotation_for_file returns successfully, every line
\* number 0..num_lines-1 of the starting file has an entry in
\* original_line_map, and the result holds one pair of a commit and a line
\* for each line of the file, in the order of the file.
AnnotationComplete ==
    (call.op = "convert_to_results" /\ call.run.outcome = "Ok") =>
        /\ 0..(call.num_lines - 1) \subseteq DOMAIN call.run.results.original_line_map
        /\ Len(call.file_annotations) = call.num_lines
        /\ \A i \in 1..call.num_lines :
                call.file_annotations[i] =
                    <<call.run.results.original_line_map[i - 1], call.original_contents[i]>>
        /\ ~call.run.read_failed =>
                call.original_contents = call.files[Len(store)].lines

\* A file of two lines was annotated over a merge: one line comes from the
\* merge and the other from the commit below both parents.
AnnotationWitness ==
    /\ call.op = "convert_to_results" /\ call.run.outcome = "Ok"
    /\ Cardinality(parent_ids(store, Len(store))) = 2
    /\ call.num_lines = 2
    /\ call.file_annotations[1][1] = 2
    /\ call.file_annotations[2][1] = Len(store)

\* Two commits forwarded different lines to the same line of their parent,
\* and a line was left without a commit.
AnnotationLostLine ==
    /\ call.op = "convert_to_results" /\ call.run.outcome = "panic"

\* C18: get_annotation_for_file returns FileNotFound when the path is absent
\* from the tree of the starting commit, and then no commit of the history
\* was processed and no file of it read.
AbsentFileNotFound ==
    (call.op # "init" /\ ~call.files[Len(store)].present) =>
        /\ call.op = "get_annotation_for_file"
        /\ call.run.outcome = "FileNotFound"
        /\ call.run.processed = 0
        /\ call.revset = <<>>
        /\ call.run.results.file_cache = <<>>
        /\ call.file_annotations = <<>>

\* FileNotFound was returned for a starting commit without the file whose
\* parents have the file.
FileNotFoundWitness ==
    /\ call.op = "get_annotation_for_file" /\ call.run.outcome = "FileNotFound"
    /\ \A q \in parent_ids(store, Len(store)) : call.files[q].present
    /\ Cardinality(parent_ids(store, Len(store))) = 2

\* C19: when the read of the contents of a file fails during the annotation,
\* get_annotation_for_file returns a Backend error, and never annotations of
\* contents that were read in part.
ReadErrorIsBackendError ==
    (call.run.read_failed /\ call.run.outcome # "running") =>
        call.run.outcome = "BackendError"

\* Annotations were returned for a file of which one line was read before
\* the read failed.
PartialAnnotations ==
    /\ call.op = "convert_to_results" /\ call.run.outcome = "Ok"
    /\ call.run.read_failed
    /\ Len(call.file_annotations) < Len(call.files[Len(store)].lines)

\* ------------------------------------------------------------------------
\* The two paths of add_head
\* ------------------------------------------------------------------------

\* The other path of add_head: the commits the index lacks are added, the
\* commit becomes a head and the view is marked dirty.
add_head_slow(st, r, head) ==
    [r EXCEPT !.index = add_commits(@, SetToSeq(missing_commits(st, r.index, {head}))),
              !.view = view_add_head(@, head),
              !.dirty = TRUE]

\* The step is add_head(c), alone or at the end of write_commit, with every
\* parent of c a current head.
add_head_on_heads(c) ==
    /\ Alive /\ call'.op \in {"add_head", "write_commit"}
    /\ tx'["p1"] = add_head(store', tx["p1"], c)
    /\ parent_ids(store', c) \subseteq tx["p1"].view.head_ids

\* What add_head(c) leaves when every parent of c is a current head: the
\* index has c more and nothing else, c is a head and no parent of c is, and
\* the heads of the view are those the other path leaves once the heads are
\* simplified.
fast_path_result(c) ==
    /\ Range(tx'["p1"].index) = Range(tx["p1"].index) \cup {c}
    /\ c \in tx'["p1"].view.head_ids
    /\ parent_ids(store', c) \cap tx'["p1"].view.head_ids = {}
    /\ view(store', tx'["p1"]).head_ids
            = view(store', add_head_slow(store', tx["p1"], c)).head_ids

\* C20: add_head(c) when every parent of c is a current head extends the
\* index by c alone, makes c a head and removes each parent of c from the
\* heads, and the resulting heads are those of the slow path followed by the
\* simplification of the heads.
AddHeadFastPath ==
    [][\A c \in DOMAIN store' : add_head_on_heads(c) => fast_path_result(c)]_vars

\* The same for the commits that have a parent, when the heads before the
\* step are simplified or the view is marked dirty.
AddHeadFastPathOnParent ==
    [][\A c \in DOMAIN store' :
        (/\ add_head_on_heads(c)
         /\ parent_ids(store', c) # {}
         /\ tx["p1"].dirty
                \/ heads(store, tx["p1"].view.head_ids) = tx["p1"].view.head_ids)
        => fast_path_result(c)]_vars

\* ------------------------------------------------------------------------
\* add_head of commits whose ancestors are not indexed
\* ------------------------------------------------------------------------

\* The number of commits of the store that heads are added from.
MaxImportCommits == 3

\* A transaction on the root view of a repository whose backend holds commits
\* that were written to it without the repository (an import writes the
\* commits to the store and adds the heads only): the index holds the root.
InitImport ==
    /\ store \in Dags(MaxImportCommits)
    /\ op_store = <<>>
    /\ op_heads = {}
    /\ lock = NoProc
    /\ pc = [p \in Procs |-> IF p = "p1" THEN "in_tx" ELSE "idle"]
    /\ repo = [p \in Procs |-> 0]
    /\ unresolved = [p \in Procs |-> NoUnresolved]
    /\ tx = [p \in Procs |->
                IF p = "p1" THEN MutableRepo_new(0, <<root_commit_id>>, root_view)
                ELSE NoTx]
    /\ call = [op |-> "start_transaction"]

NextImport ==
    \/ AddHead
    \/ RemoveHead
    \/ ReadView

SpecImport == InitImport /\ [][NextImport]_vars

\* Positions are a topological numbering: every parent of an indexed commit
\* is indexed at a smaller position, and no commit is indexed twice.
topological_numbering(st, index) ==
    /\ \A i, j \in DOMAIN index : index[i] = index[j] => i = j
    /\ \A i \in DOMAIN index : \A p \in parent_ids(st, index[i]) :
            \E j \in 1..(i - 1) : index[j] = p

\* The step is add_head(c) with a parent of c that is not a current head.
add_head_off_heads(c) ==
    /\ Alive /\ call'.op = "add_head"
    /\ tx'["p1"] = add_head(store, tx["p1"], c)
    /\ ~(parent_ids(store, c) \subseteq tx["p1"].view.head_ids)

\* What add_head(c) leaves when a parent of c is not a current head: the
\* index has c and the ancestors of c more, in the order it had and each new
\* commit after its parents; c is among the heads and the view is dirty; the
\* view read next has heads of which none is an ancestor of another and that
\* reach what the heads before and c reach.
slow_path_result(c) ==
    LET r == tx["p1"]
        r2 == tx'["p1"]
        read == view(store, r2)
    IN  /\ Range(r2.index) = Range(r.index) \cup ancestors(store, {c})
        /\ SubSeq(r2.index, 1, Len(r.index)) = r.index
        /\ has_id(r.index, c) \/ r2.index[Len(r2.index)] = c
        /\ c \in r2.view.head_ids
        /\ r2.dirty
        /\ heads(store, read.head_ids) = read.head_ids
        /\ ancestors(store, read.head_ids)
                = ancestors(store, r.view.head_ids \cup r.view.public_head_ids \cup {c})

\* C21: add_head(c) when some parent of c is not a current head adds every
\* ancestor of c that is not indexed to the index before its descendants and
\* then c, so that after every step the positions of the index are a
\* topological numbering and every commit reachable from a head is indexed;
\* c is added to the heads and the view is marked dirty, and the next read
\* of the view returns simplified heads.
AddHeadSlowPath ==
    [][/\ topological_numbering(store, tx'["p1"].index)
       /\ ancestors(store, tx'["p1"].view.head_ids) \subseteq Range(tx'["p1"].index)
       /\ \A c \in DOMAIN store : add_head_off_heads(c) => slow_path_result(c)]_vars

\* add_head of a merge commit has indexed the commit and all its ancestors
\* in one call: the index held the root only, and the view is dirty with the
\* root and the merge commit as its heads.
AddHeadSlowPathWitness ==
    /\ call.op = "add_head"
    /\ tx["p1"].dirty
    /\ tx["p1"].view.head_ids = {root_commit_id, MaxImportCommits}
    /\ Cardinality(parent_ids(store, MaxImportCommits)) = 2
    /\ Len(tx["p1"].index) = MaxImportCommits

\* ------------------------------------------------------------------------
\* Working-copy commits and the heads of the view
\* ------------------------------------------------------------------------

\* The number of operations of the process that moves the working copy, the
\* first operation included.
MaxWorkspaceOps == 5

\* One process that checks out, edits and describes commits and undoes
\* operations, one transaction after the other.
NextWorkspace ==
    \/ LoadAtHead("p1")
    \/ (Len(op_store) < MaxWorkspaceOps /\ StartTransaction("p1")
            /\ tx'["p1"].metadata.command
                \in {"check out commit", "edit commit", "describe commit",
                     "undo operation"})
    \/ TxCheckOut("p1")
    \/ TxEdit("p1")
    \/ TxRewrite("p1")
    \/ TxUndo("p1")
    \/ TxRebase("p1")
    \/ Write("p1")
    \/ Publish("p1")

SpecWorkspace == InitOps /\ [][NextWorkspace]_vars

\* The working-copy commits of a view.
wc_commits(v) == {v.wc_commit_ids[w] : w \in WorkspaceIds} \ {NoCommit}

set_remote_branch(r, name, remote_name, target) ==
    [r EXCEPT !.view = view_set_ref(@, RemoteBranch(name, remote_name), target)]

\* MutableRepo::set_tag
set_tag(r, name, target) ==
    [r EXCEPT !.view = view_set_ref(@, Tag(name), target)]

\* MutableRepo::set_git_ref
set_git_ref(r, name, target) ==
    [r EXCEPT !.view = view_set_ref(@, GitRef(name), target)]

\* MutableRepo::set_branch: the local target and the remote targets of the
\* branch are replaced.
set_branch(r, name, local_target, remote_target) ==
    [r EXCEPT !.view =
        view_set_ref(view_set_ref(@, LocalBranch(name), local_target),
                     RemoteBranch(name, "origin"), remote_target)]

\* The targets a caller gives a ref: absent, or a commit that the view read
\* through view() shows, a head or an ancestor of a head.
VisibleTargets ==
    {Absent} \cup {Normal(c) : c \in ancestors(store, view(store, tx["p1"]).head_ids)}

\* mut_repo.set_branch(name, target)
SetBranch ==
    /\ Alive
    /\ \E local_target \in VisibleTargets, remote_target \in VisibleTargets :
        ApiStep("set_branch", set_branch(tx["p1"], "main", local_target, remote_target))
    /\ UNCHANGED store

\* mut_repo.set_local_branch(name, target)
SetLocalBranch ==
    /\ Alive
    /\ \E target \in VisibleTargets :
        ApiStep("set_local_branch", set_local_branch(tx["p1"], "main", target))
    /\ UNCHANGED store

\* mut_repo.set_remote_branch(name, remote_name, target)
SetRemoteBranch ==
    /\ Alive
    /\ \E target \in VisibleTargets :
        ApiStep("set_remote_branch",
                set_remote_branch(tx["p1"], "main", "origin", target))
    /\ UNCHANGED store

\* mut_repo.set_tag(name, target)
SetTag ==
    /\ Alive
    /\ \E target \in VisibleTargets :
        ApiStep("set_tag", set_tag(tx["p1"], "v1", target))
    /\ UNCHANGED store

\* mut_repo.set_git_ref(name, target)
SetGitRef ==
    /\ Alive
    /\ \E target \in VisibleTargets :
        ApiStep("set_git_ref", set_git_ref(tx["p1"], "refs/heads/main", target))
    /\ UNCHANGED store

\* A transaction on a repository with one commit on the root, which is the
\* head of the view.
InitRefs ==
    /\ store = <<RootCommit, PlainCommit(2, {root_commit_id})>>
    /\ op_store = <<>>
    /\ op_heads = {}
    /\ lock = NoProc
    /\ pc = [p \in Procs |-> IF p = "p1" THEN "in_tx" ELSE "idle"]
    /\ repo = [p \in Procs |-> 0]
    /\ unresolved = [p \in Procs |-> NoUnresolved]
    /\ tx = [p \in Procs |->
                IF p = "p1"
                THEN MutableRepo_new(0, <<root_commit_id, 2>>,
                                     View({2}, {root_commit_id}, NoWorkspaces, NoRefs))
                ELSE NoTx]
    /\ call = [op |-> "start_transaction"]

\* One transaction that sets refs to commits it shows, removes heads and
\* merges, and is consumed.
NextRefs ==
    \/ SetBranch
    \/ SetLocalBranch
    \/ SetRemoteBranch
    \/ SetTag
    \/ SetGitRef
    \/ RemoveHead
    \/ MergeRepos
    \/ ReadView
    \/ Consume

SpecRefs == InitRefs /\ [][NextRefs]_vars

\* The commits the targets of the refs of a view name.
ref_commits(v) == UNION {target_ids(v.refs[n]) : n \in RefNames}

NextPublic ==
    \/ WriteCommit
    \/ AddHead
    \/ RemoveHead
    \/ AddPublicHead
    \/ RemovePublicHead
    \/ ReadView
    \/ Consume

SpecPublic == InitRepo /\ [][NextPublic]_vars

\* The last step returned the view: it was view() or consume().
view_returned == call.op \in {"view", "consume"} /\ ~tx["p1"].panicked

\* In every view returned by view() or consume(), public_head_ids is a
\* subset of head_ids.
PublicHeadsAreHeads ==
    view_returned => tx["p1"].view.public_head_ids \subseteq tx["p1"].view.head_ids

\* C24: in every view returned by view() or consume(), every element of
\* public_head_ids is an element of head_ids or an ancestor of one.
PublicHeadsAreVisible ==
    view_returned =>
        tx["p1"].view.public_head_ids
            \subseteq ancestors(store, tx["p1"].view.head_ids)

\* A view was returned in which a public head other than the root is the
\* parent of the head and not a head itself.
PublicHeadBelowHead ==
    /\ view_returned
    /\ \E p \in tx["p1"].view.public_head_ids \ {root_commit_id} :
        /\ p \notin tx["p1"].view.head_ids
        /\ \E h \in tx["p1"].view.head_ids : p \in parent_ids(store, h)

\* ------------------------------------------------------------------------
\* branch forget
\* ------------------------------------------------------------------------

\* The remotes of the branch: one Git remote and the pseudo-remote that
\* stands for the local Git repository.
REMOTE_NAME_FOR_LOCAL_GIT_REPO == "git"

ForgetRemotes == {"origin", REMOTE_NAME_FOR_LOCAL_GIT_REPO}

\* A RemoteRef: a target and whether the local branch tracks it.
RemoteRef(target, tracked) == [target |-> target, tracked |-> tracked]

\* The RemoteRef of a remote that has no branch of the name.
RemoteRef_absent == RemoteRef(Absent, FALSE)

\* The RemoteRef of a branch that was exported or pushed at the target: it is
\* tracked, and it is gone when the branch was deleted.
RemoteRef_tracked(target) ==
    IF is_absent(target) THEN RemoteRef_absent ELSE RemoteRef(target, TRUE)

\* The targets of one branch name in a view: the local target and the
\* remote refs.
BranchRefs(local_target, remote_refs) ==
    [local_target |-> local_target, remote_refs |-> remote_refs]

\* The view has the branch: a target of its name is present.
has_branch(b) ==
    \/ ~is_absent(b.local_target)
    \/ \E remote \in ForgetRemotes : ~is_absent(b.remote_refs[remote].target)

\* view.remote_branches_matching(Exact(name), glob("*")): the remotes that
\* have a ref of the name.
remote_branches_matching(b) ==
    {remote \in ForgetRemotes : ~is_absent(b.remote_refs[remote].target)}

\* MutableRepo::untrack_remote_branch
untrack_remote_branch(b, remote) ==
    [b EXCEPT !.remote_refs[remote].tracked = FALSE]

RECURSIVE untrack_remote_branches(_, _)
\* The loop of cmd_branch_forget over the remote branches.
untrack_remote_branches(b, remotes) ==
    IF remotes = {} THEN b
    ELSE LET remote == CHOOSE rm \in remotes : TRUE
         IN  untrack_remote_branches(
                IF remote # REMOTE_NAME_FOR_LOCAL_GIT_REPO
                THEN untrack_remote_branch(b, remote) ELSE b,
                remotes \ {remote})

\* MutableRepo::set_local_branch_target
set_local_branch_target(b, target) == [b EXCEPT !.local_target = target]

\* MutableRepo::remove_branch: the local target and every remote ref of the
\* name are removed.
remove_branch(b) ==
    BranchRefs(Absent, [remote \in ForgetRemotes |-> RemoteRef_absent])

\* cmd_branch_forget --local that leaves the remote refs tracked.
cmd_branch_forget_tracked(base, scope) ==
    IF scope = "global" THEN remove_branch(base)
    ELSE set_local_branch_target(base, Absent)

\* cmd_branch_forget for one branch name; base is the view of the base repo.
cmd_branch_forget(base, scope) ==
    IF scope = "global" THEN remove_branch(base)
    ELSE set_local_branch_target(
            untrack_remote_branches(base, remote_branches_matching(base)), Absent)

\* The refs of the name in the Git repository (refs/heads/name and
\* refs/remotes/origin/name) and the branch on the remote itself.
GitRefs(local, remote_tracking, on_remote) ==
    [local |-> local, remote_tracking |-> remote_tracking, on_remote |-> on_remote]

\* Export to Git: the local target is written to refs/heads/name when it
\* differs from the target last exported, and recorded as exported; the
\* refs of the remotes are not exported.
git_export(b, git) ==
    IF b.local_target = b.remote_refs[REMOTE_NAME_FOR_LOCAL_GIT_REPO].target
    THEN [branch |-> b, git |-> git]
    ELSE [branch |-> [b EXCEPT !.remote_refs[REMOTE_NAME_FOR_LOCAL_GIT_REPO] =
                                    RemoteRef_tracked(b.local_target)],
          git |-> [git EXCEPT !.local = b.local_target]]

\* Push of the branch to the remote: the branch on the remote is moved to
\* the local target, or deleted when the local target is absent, when the
\* remote ref is tracked, differs from the local target and is where the
\* remote has the branch; an untracked remote ref is not pushed to, and a
\* local target is pushed to a remote that has no branch of the name.
git_push(b, git, remote) ==
    LET remote_ref == b.remote_refs[remote]
        tracking_target == IF remote_ref.tracked THEN remote_ref.target ELSE Absent
    IN  IF b.local_target = tracking_target
        THEN [branch |-> b, git |-> git]
        ELSE IF ~is_absent(remote_ref.target) /\ ~remote_ref.tracked
        THEN [branch |-> b, git |-> git]
        ELSE IF git.on_remote # remote_ref.target
        THEN [branch |-> b, git |-> git]
        ELSE [branch |-> [b EXCEPT !.remote_refs[remote] =
                                        RemoteRef_tracked(b.local_target)],
              git |-> [git EXCEPT !.remote_tracking = b.local_target,
                                  !.on_remote = b.local_target]]

\* The targets of the branch: absent or one of two commits.
ForgetTargets == {Absent, Normal(2), Normal(3)}

\* A repository with a branch in any state of its local target, its ref on
\* the remote (tracked or not) and its ref in the Git repository; the Git
\* repository has what was imported and exported, and the remote has the
\* branch where it was fetched or has moved or deleted it since.
InitForget ==
    /\ store = <<RootCommit, PlainCommit(2, {root_commit_id}), PlainCommit(3, {2})>>
    /\ InitNoOps
    /\ tx = [p \in Procs |-> NoTx]
    /\ \E local_target \in ForgetTargets, origin_target \in ForgetTargets,
          git_target \in ForgetTargets, on_remote \in ForgetTargets,
          tracked \in BOOLEAN :
        /\ is_absent(origin_target) => ~tracked
        /\ LET b == BranchRefs(local_target,
                        [remote \in ForgetRemotes |->
                            IF remote = REMOTE_NAME_FOR_LOCAL_GIT_REPO
                            THEN RemoteRef_tracked(git_target)
                            ELSE RemoteRef(origin_target, tracked)])
           IN  /\ has_branch(b)
               /\ call = [op |-> "init", scope |-> "none", base |-> b, branch |-> b,
                          git |-> GitRefs(git_target, origin_target, on_remote)]

ForgetStep(op, scope, base, result) ==
    /\ call' = [op |-> op, scope |-> scope, base |-> base,
                branch |-> result.branch, git |-> result.git]
    /\ UNCHANGED <<store, op_store, op_heads, lock, pc, repo, tx, unresolved>>

\* jj branch forget --global name, jj branch forget --local name
BranchForget ==
    /\ has_branch(call.branch)
    /\ \E scope \in {"global", "local"} :
        ForgetStep("forget", scope, call.branch,
                   [branch |-> cmd_branch_forget(call.branch, scope), git |-> call.git])

\* jj git export
GitExport ==
    ForgetStep("export", call.scope, call.base, git_export(call.branch, call.git))

\* jj git push --branch name
GitPush ==
    ForgetStep("push", call.scope, call.base, git_push(call.branch, call.git, "origin"))

NextForget == BranchForget \/ GitExport \/ GitPush

SpecForget == InitForget /\ [][NextForget]_vars

\* The step is branch forget --local.
forget_local_step == call'.op = "forget" /\ call'.scope = "local"

\* What branch forget --local leaves of the branch: no local target, no
\* tracked ref of a remote other than the local Git repository, the ref of
\* the local Git repository as it was, and every ref with the target it had.
forgotten_locally(base, b) ==
    /\ is_absent(b.local_target)
    /\ \A remote \in ForgetRemotes \ {REMOTE_NAME_FOR_LOCAL_GIT_REPO} :
            ~b.remote_refs[remote].tracked
    /\ b.remote_refs[REMOTE_NAME_FOR_LOCAL_GIT_REPO]
            = base.remote_refs[REMOTE_NAME_FOR_LOCAL_GIT_REPO]
    /\ \A remote \in ForgetRemotes :
            b.remote_refs[remote].target = base.remote_refs[remote].target
    /\ remote_branches_matching(base) # {} => has_branch(b)

\* The step is an export or a push after the last forget was --local.
after_forget_local == call.scope = "local" /\ call'.op \in {"export", "push"}

\* The branch on the remote and the refs the view and the Git repository
\* have of it are what they were.
remote_branch_kept ==
    /\ call'.git.on_remote = call.git.on_remote
    /\ call'.git.remote_tracking = call.git.remote_tracking
    /\ call'.branch.remote_refs["origin"] = call.branch.remote_refs["origin"]

\* C25: branch forget --local sets the local target of the branch to absent
\* and untracks each of its remote refs but that of the local Git
\* repository, leaves the target of every remote ref as it was and, when
\* the branch has a remote ref, leaves the branch in the view; an export to
\* Git or a push that follows neither deletes nor moves the branch on the
\* remote.
BranchForgetLocalKeepsRemote ==
    [][/\ forget_local_step => forgotten_locally(call.branch, call'.branch)
       /\ after_forget_local => remote_branch_kept]_vars

\* A branch whose tracked remote ref and local target were at a commit was
\* forgotten locally, and then exported and pushed: the local Git branch is
\* gone and the branch on the remote is where it was.
BranchForgetWitness ==
    /\ call.op = "push" /\ call.scope = "local"
    /\ call.base.remote_refs["origin"] = RemoteRef(Normal(2), TRUE)
    /\ call.base.local_target = Normal(2)
    /\ call.base.remote_refs[REMOTE_NAME_FOR_LOCAL_GIT_REPO].target = Normal(2)
    /\ is_absent(call.git.local)
    /\ call.git.on_remote = Normal(2)
    /\ call.branch.remote_refs["origin"] = RemoteRef(Normal(2), FALSE)

\* ------------------------------------------------------------------------
\* The operation log under operation abandon and util gc
\* ------------------------------------------------------------------------

\* The number of operations written, the first operation included.
MaxGcOps == 5

\* What the operation store holds at the id of an operation that was
\* removed from it.
NoOperation ==
    Operation(<<>>, root_view, <<>>, OperationMetadata("no operation", 0, NoProc))

\* OpStore::read_operation: the operation of the id, when the store has it.
read_operation(ops, op_id) == [found |-> ops[op_id] # NoOperation, op |-> ops[op_id]]

\* operation abandon that changes the parents of the operation where it is
\* stored.
reparent_operation_in_place(ops, op_id, parents) ==
    Append([ops EXCEPT ![op_id].parents = parents], ops[op_id])

\* operation abandon: the operation that stays is written again with its new
\* parents, under a new id; the operations it had are left as they are.
reparent_operation(ops, op_id, parents) ==
    Append(ops, [ops[op_id] EXCEPT !.parents = parents])

\* util gc --expire=now: the operations that are no ancestor of an op head
\* are removed from the operation store.
gc(ops, hs) ==
    [o \in DOMAIN ops |-> IF o \in op_ancestors(ops, hs) THEN ops[o] ELSE NoOperation]

\* jj operation abandon ..@-: every operation between the first operation
\* and the head is abandoned; the head is written again on the first
\* operation and becomes the only op head.
OperationAbandon(p) ==
    /\ pc[p] = "loaded" /\ op_heads = {repo[p]} /\ lock = NoProc
    /\ Len(op_store) < MaxGcOps
    /\ op_store[repo[p]].parents \notin {<<>>, <<1>>}
    /\ op_store' = reparent_operation(op_store, repo[p], <<1>>)
    /\ op_heads' = {Len(op_store')}
    /\ repo' = [repo EXCEPT ![p] = Len(op_store')]
    /\ UNCHANGED <<store, lock, pc, tx, unresolved, call>>

\* jj util gc --expire=now
UtilGc(p) ==
    /\ pc[p] = "loaded" /\ lock = NoProc
    /\ op_store' = gc(op_store, op_heads)
    /\ op_store' # op_store
    /\ UNCHANGED <<store, op_heads, lock, pc, repo, tx, unresolved, call>>

\* One process that describes and checks out commits, abandons operations
\* and collects the garbage.
NextGc ==
    \/ LoadAtHead("p1")
    \/ (Len(op_store) < MaxGcOps /\ StartTransaction("p1")
            /\ tx'["p1"].metadata.command \in {"check out commit", "describe commit"})
    \/ TxCheckOut("p1")
    \/ TxRewrite("p1")
    \/ TxRebase("p1")
    \/ Write("p1")
    \/ Publish("p1")
    \/ OperationAbandon("p1")
    \/ UtilGc("p1")

SpecGc == InitOps /\ [][NextGc]_vars

\* Reading the operation after the step gives the operation that reading it
\* before the step gave, and load_at gives the view written with it.
reads_the_same(o) ==
    /\ read_operation(op_store', o).op = read_operation(op_store, o).op
    /\ load_at(op_store', o).view = op_store[o].view

\* For any operation the system has written, reading its id at any later
\* time returns an operation equal to it, and load_at yields the view
\* written with it.
OperationsStayReadable ==
    [][\A o \in DOMAIN op_store :
        read_operation(op_store, o).found =>
            read_operation(op_store', o).found /\ reads_the_same(o)]_vars

\* C26: operations are immutable, and stay readable until util gc removes
\* them, which it does only to operations that are no ancestor of an op
\* head (as operation abandon leaves them): reading the id of a written
\* operation returns an operation equal to it, and load_at yields the view
\* written with it, as long as the operation store has it, and it has every
\* ancestor of an op head.
OperationsImmutableUntilGc ==
    [][\A o \in DOMAIN op_store :
        read_operation(op_store, o).found =>
            /\ read_operation(op_store', o).found => reads_the_same(o)
            /\ o \in op_ancestors(op_store', op_heads')
                    => read_operation(op_store', o).found]_vars

\* An operation was abandoned and removed: the head was written again on the
\* first operation, and the operation store no longer has the operation
\* that was its parent.
OperationRemovedWitness ==
    \E h \in op_heads, o \in DOMAIN op_store :
        /\ op_store[h].parents = <<1>>
        /\ o \notin {1, h}
        /\ ~read_operation(op_store, o).found

\* ------------------------------------------------------------------------
\* Unified diff hunks (lib/src/unified_diff.rs)
\* ------------------------------------------------------------------------

\* The largest number of context lines asked for.
MaxContext == 1

\* The largest number of hunks of a diff by line.
MaxDiffHunks == 4

\* The longest run of matching lines: long enough to be split at MaxContext.
MaxMatchingLines == 2 * MaxContext + 1

\* DiffHunkKind::Matching: the same lines on both sides; contents[0] is the
\* left side and contents[1] the right side.
Matching(left, right) == [kind |-> "Matching", contents |-> <<left, right>>]

\* DiffHunkKind::Different
Different(left, right) == [kind |-> "Different", contents |-> <<left, right>>]

\* The first n elements of an iterator: Iterator::take
take(lines, n) == SubSeq(lines, 1, IF n < Len(lines) THEN n ELSE Len(lines))

\* The elements an iterator has left after n of them were taken.
skip(lines, n) == SubSeq(lines, (IF n < Len(lines) THEN n ELSE Len(lines)) + 1, Len(lines))

\* The last n elements of an iterator: rev().take(n), reversed again.
take_back(lines, n) == skip(lines, Len(lines) - (IF n < Len(lines) THEN n ELSE Len(lines)))

\* UnifiedDiffHunk: an empty hunk that starts at the given lines.
UnifiedDiffHunk(left_start, right_start) ==
    [left_line_range |-> [start |-> left_start, end |-> left_start],
     right_line_range |-> [start |-> right_start, end |-> right_start],
     lines |-> <<>>]

\* The lines with their DiffLineType.
typed_lines(type, lines) == [i \in 1..Len(lines) |-> [type |-> type, content |-> lines[i]]]

\* UnifiedDiffHunk::extend_context_lines
extend_context_lines(hunk, lines) ==
    [hunk EXCEPT !.left_line_range.end = @ + Len(lines),
                 !.right_line_range.end = @ + Len(lines),
                 !.lines = @ \o typed_lines("Context", lines)]

\* extend_removed_lines that leaves the end of the left range where it is.
extend_removed_lines_unranged(hunk, lines) ==
    [hunk EXCEPT !.lines = @ \o typed_lines("Removed", lines)]

\* UnifiedDiffHunk::extend_removed_lines
extend_removed_lines(hunk, lines) ==
    [hunk EXCEPT !.left_line_range.end = @ + Len(lines),
                 !.lines = @ \o typed_lines("Removed", lines)]

\* UnifiedDiffHunk::extend_added_lines
extend_added_lines(hunk, lines) ==
    [hunk EXCEPT !.right_line_range.end = @ + Len(lines),
                 !.lines = @ \o typed_lines("Added", lines)]

\* The context lines shown after the previous difference: none when the
\* current hunk is still empty.
after_lines(current_hunk, lines, context) ==
    IF current_hunk.lines # <<>> THEN take(lines, context) ELSE <<>>

\* The context lines shown before the next difference: none when no hunk
\* follows.
before_lines(lines, context, more) ==
    IF more THEN take_back(lines, context) ELSE <<>>

\* The hunk that goes on after num_skip_lines lines were skipped: a new one
\* when any line was skipped.
hunk_after_skip(current_hunk, num_skip_lines) ==
    IF num_skip_lines > 0
    THEN UnifiedDiffHunk(current_hunk.left_line_range.end + num_skip_lines,
                         current_hunk.right_line_range.end + num_skip_lines)
    ELSE current_hunk

\* The hunks emitted so far, after num_skip_lines lines were skipped.
hunks_after_skip(hunks, current_hunk, num_skip_lines) ==
    IF num_skip_lines > 0 /\ current_hunk.lines # <<>> THEN Append(hunks, current_hunk)
    ELSE hunks

\* The Matching arm of the loop of unified_diff_hunks, from the lines left
\* after the trailing context of the previous difference.
matching_arm(hunks, current_hunk, lines, context, more) ==
    [hunks |-> hunks_after_skip(hunks, current_hunk,
                                Len(lines) - Len(before_lines(lines, context, more))),
     current_hunk |->
        extend_context_lines(
            hunk_after_skip(current_hunk,
                            Len(lines) - Len(before_lines(lines, context, more))),
            before_lines(lines, context, more))]

\* unzip_diff_hunks_to_lines of the diff by word of a Different hunk: the lines
\* of the left side and the lines of the right side.
unzip_diff_hunks_to_lines(contents) == [left |-> contents[1], right |-> contents[2]]

\* One turn of the loop of unified_diff_hunks.
unified_diff_arm(state, hunk, context, more) ==
    IF hunk.kind = "Matching"
    THEN matching_arm(
            state.hunks,
            extend_context_lines(state.current_hunk,
                                 after_lines(state.current_hunk, hunk.contents[2], context)),
            skip(hunk.contents[2],
                 Len(after_lines(state.current_hunk, hunk.contents[2], context))),
            context, more)
    ELSE [state EXCEPT !.current_hunk =
            extend_added_lines(
                extend_removed_lines(@, unzip_diff_hunks_to_lines(hunk.contents).left),
                unzip_diff_hunks_to_lines(hunk.contents).right)]

RECURSIVE unified_diff_loop(_, _, _, _)
\* The loop of unified_diff_hunks over the hunks of the diff, from hunk i,
\* and the push of the last hunk.
unified_diff_loop(diff_hunks, i, context, state) ==
    IF i > Len(diff_hunks)
    THEN (IF state.current_hunk.lines # <<>> THEN Append(state.hunks, state.current_hunk)
          ELSE state.hunks)
    ELSE unified_diff_loop(diff_hunks, i + 1, context,
            unified_diff_arm(state, diff_hunks[i], context, i < Len(diff_hunks)))

\* unified_diff_hunks with one more line of context than asked for.
unified_diff_hunks_wide(diff_hunks, context) ==
    unified_diff_loop(diff_hunks, 1, context + 1,
                      [hunks |-> <<>>, current_hunk |-> UnifiedDiffHunk(0, 0)])

\* unified_diff_hunks(contents, context, diff_by_line)
unified_diff_hunks(diff_hunks, context) ==
    unified_diff_loop(diff_hunks, 1, context,
                      [hunks |-> <<>>, current_hunk |-> UnifiedDiffHunk(0, 0)])

\* The shapes of the hunks of a diff by line: the numbers of lines of the
\* two sides, the same on both sides of a Matching hunk, not both zero in a
\* Different hunk.
HunkShapes(kind) ==
    IF kind = "Matching"
    THEN {[kind |-> kind, left |-> n, right |-> n] : n \in 1..MaxMatchingLines}
    ELSE {[kind |-> kind, left |-> l, right |-> r] :
            l \in 0..1, r \in 0..1} \ {[kind |-> kind, left |-> 0, right |-> 0]}

\* The other kind of hunk.
other_kind(kind) == IF kind = "Matching" THEN "Different" ELSE "Matching"

\* The diffs by line of up to MaxDiffHunks hunks: Matching and Different hunks
\* in turn.
DiffShapes ==
    UNION {{shapes \in [1..n -> HunkShapes("Matching") \cup HunkShapes("Different")] :
                \A i \in 1..(n - 1) : shapes[i + 1].kind = other_kind(shapes[i].kind)} :
           n \in 0..MaxDiffHunks}

RECURSIVE lines_before(_, _, _)
\* The number of lines of one side in the hunks before hunk i.
lines_before(shapes, side, i) ==
    IF i <= 1 THEN 0
    ELSE lines_before(shapes, side, i - 1)
            + (IF side = "left" THEN shapes[i - 1].left ELSE shapes[i - 1].right)

\* The lines of one side of hunk i: each line is its number in the file of
\* that side, counted from 0.
hunk_lines(shapes, side, i) ==
    [k \in 1..(IF side = "left" THEN shapes[i].left ELSE shapes[i].right) |->
        lines_before(shapes, side, i) + k - 1]

\* The hunks of the diff by line with the lines of both files.
diff_by_line(shapes) ==
    [i \in 1..Len(shapes) |->
        [kind |-> shapes[i].kind,
         contents |-> <<hunk_lines(shapes, "left", i), hunk_lines(shapes, "right", i)>>]]

InitUnifiedDiff ==
    /\ store = <<RootCommit>>
    /\ InitNoOps
    /\ tx = [p \in Procs |-> NoTx]
    /\ \E shapes \in DiffShapes, context \in 0..MaxContext :
        call = [op |-> "diff", diff_hunks |-> diff_by_line(shapes), context |-> context,
                hunks |-> <<>>]

\* unified_diff_hunks(contents, context, diff)
UnifiedDiffHunks ==
    /\ call.op = "diff"
    /\ call' = [call EXCEPT !.op = "unified_diff_hunks",
                            !.hunks = unified_diff_hunks(call.diff_hunks, call.context)]
    /\ UNCHANGED <<store, op_store, op_heads, lock, pc, repo, tx, unresolved>>

NextUnifiedDiff == UnifiedDiffHunks

SpecUnifiedDiff == InitUnifiedDiff /\ [][NextUnifiedDiff]_vars

\* The lines are context lines.
all_context(lines) == \A i \in DOMAIN lines : lines[i].type = "Context"

\* The context lines a hunk shows before its first changed line.
leading_context(hunk) ==
    Max({k \in 0..Len(hunk.lines) : all_context(take(hunk.lines, k))})

\* The context lines a hunk shows after its last changed line.
trailing_context(hunk) ==
    Max({k \in 0..Len(hunk.lines) : all_context(take_back(hunk.lines, k))})

\* The unified hunks that show a line of the Different hunk i of the diff.
hunks_showing(i) ==
    {h \in DOMAIN call.hunks :
        \E k \in DOMAIN call.hunks[h].lines :
            \/ /\ call.hunks[h].lines[k].type = "Removed"
               /\ call.hunks[h].lines[k].content \in Range(call.diff_hunks[i].contents[1])
            \/ /\ call.hunks[h].lines[k].type = "Added"
               /\ call.hunks[h].lines[k].content \in Range(call.diff_hunks[i].contents[2])}

\* The matching runs of the diff that lie between two changed regions.
inner_matching_runs ==
    {i \in 2..(Len(call.diff_hunks) - 1) : call.diff_hunks[i].kind = "Matching"}

\* C27: unified_diff_hunks with context = n: every hunk shows at most n
\* context lines before its first changed line and at most n after its last
\* changed line; two changed regions separated by a matching run of more than
\* 2n lines are in different hunks, those separated by at most 2n matching
\* lines are in the same hunk; identical inputs yield no hunk.
UnifiedDiffContext ==
    call.op = "unified_diff_hunks" =>
        /\ \A h \in DOMAIN call.hunks :
            /\ ~all_context(call.hunks[h].lines)
            /\ leading_context(call.hunks[h]) <= call.context
            /\ trailing_context(call.hunks[h]) <= call.context
        /\ \A i \in inner_matching_runs :
            /\ Cardinality(hunks_showing(i - 1)) = 1
            /\ Cardinality(hunks_showing(i + 1)) = 1
            /\ (Len(call.diff_hunks[i].contents[2]) > 2 * call.context
                    => hunks_showing(i - 1) # hunks_showing(i + 1))
            /\ (Len(call.diff_hunks[i].contents[2]) <= 2 * call.context
                    => hunks_showing(i - 1) = hunks_showing(i + 1))
        /\ ((\A i \in DOMAIN call.diff_hunks : call.diff_hunks[i].kind = "Matching")
                => call.hunks = <<>>)

\* A diff of MaxDiffHunks hunks was formatted with MaxContext lines of
\* context: a matching run one line too long split two changed regions, and
\* the last hunk starts with all the context asked for.
UnifiedDiffContextWitness ==
    /\ call.op = "unified_diff_hunks"
    /\ call.context = MaxContext
    /\ Len(call.diff_hunks) = MaxDiffHunks
    /\ \E i \in inner_matching_runs :
        /\ Len(call.diff_hunks[i].contents[2]) = 2 * call.context + 1
        /\ hunks_showing(i - 1) # hunks_showing(i + 1)
        /\ leading_context(call.hunks[Len(call.hunks)]) = call.context

\* ------------------------------------------------------------------------
\* Merge commits and the root commit (cli/src/commands/new.rs)
\* ------------------------------------------------------------------------

\* The number of operations written in the scenarios, the first included.
MaxRootOps == 2

\* A repository of two children of the root and a child of the second.
RootMergeStore ==
    <<RootCommit, PlainCommit(2, {root_commit_id}), PlainCommit(3, {root_commit_id}),
      PlainCommit(4, {3})>>

\* The most commits the store holds: those of the first operation, a new
\* commit inserted before two of them and the two rebased onto it.
MaxRootStore == Len(RootMergeStore) + 3

\* resolve_all_revs: the revisions of the command line; the root commit
\* beside another revision is an error (Cannot merge with root revision).
resolve_all_revs(revisions) ==
    [error |-> Cardinality(revisions) >= 2 /\ root_commit_id \in revisions,
     commits |-> SetToSeq(revisions)]

\* The repository with the default workspace at the last commit.
InitRootMerge ==
    /\ store = RootMergeStore
    /\ op_store = <<Operation(<<>>,
                        View(heads(store, DOMAIN store), {root_commit_id},
                             [NoWorkspaces EXCEPT !["default"] = Len(store)], NoRefs),
                        full_index(store),
                        OperationMetadata("initialize repo", 0, NoProc))>>
    /\ op_heads = {1}
    /\ lock = NoProc
    /\ pc = [p \in Procs |-> "idle"]
    /\ repo = [p \in Procs |-> 0]
    /\ unresolved = [p \in Procs |-> NoUnresolved]
    /\ tx = [p \in Procs |-> NoTx]
    /\ call = [op |-> "init"]

\* The sets of two commits of S.
TwoOf(S) == {{q, r} : q, r \in S} \ {{q} : q \in S}

\* cmd_new without --insert-before and --insert-after, for two revisions:
\* the new commit is written on the revisions and edited in the workspace.
TxNew(p) ==
    /\ pc[p] = "in_tx" /\ tx[p].metadata.command = "new empty commit"
    /\ \E revisions \in TwoOf(visible(p)) :
        \E target_commits \in {resolve_all_revs(revisions)} :
            IF target_commits.error
            THEN CommandError(p, revisions, NoCommit)
            ELSE /\ Len(store) < MaxRootStore
                 /\ store' = store_write_commit(store,
                                new_commit_on(store, target_commits.commits))
                 /\ tx' = [tx EXCEPT ![p] =
                            edit(store', add_head(store', tx[p], Len(store) + 1),
                                 "default", Len(store) + 1)]
                 /\ pc' = [pc EXCEPT ![p] = "mutated"]
                 /\ call' = [op |-> "new on", request |-> revisions,
                             destination |-> Len(store) + 1]
                 /\ UNCHANGED <<op_store, op_heads, lock, repo, unresolved>>

\* rebase -s source -d destinations, for two destinations: refused for the
\* root commit beside another destination, for the root commit as the source
\* and for a destination that is the source or a descendant of it; else the
\* source is rebased onto the destinations and its descendants follow.
TxRebaseOnto(p) ==
    /\ pc[p] = "in_tx" /\ tx[p].metadata.command = "rebase commits"
    /\ \E source \in visible(p), revisions \in TwoOf(visible(p)) :
        \E destinations \in {resolve_all_revs(revisions)} :
            IF \/ destinations.error
               \/ source = root_commit_id
               \/ \E d \in revisions : is_ancestor(store, source, d)
            THEN /\ tx' = [tx EXCEPT ![p] = NoTx]
                 /\ pc' = [pc EXCEPT ![p] = "loaded"]
                 /\ call' = [op |-> "rebase error", request |-> {source},
                             destinations |-> revisions]
                 /\ UNCHANGED <<store, op_store, op_heads, lock, repo, unresolved>>
            ELSE \E written \in {store_write_commit(store,
                                    rebase_commit(store, source, destinations.commits))} :
                 \E rebased \in {rebase_descendants(written,
                                    write_rewritten(written, tx[p], source,
                                        commit_id_of(store,
                                            rebase_commit(store, source,
                                                          destinations.commits))))} :
                    /\ Len(rebased.store) <= MaxRootStore
                    /\ store' = rebased.store
                    /\ tx' = [tx EXCEPT ![p] = rebased.repo]
                    /\ pc' = [pc EXCEPT ![p] = "mutated"]
                    /\ call' = [op |-> "rebase onto", request |-> {source},
                                destinations |-> revisions]
                    /\ UNCHANGED <<op_store, op_heads, lock, repo, unresolved>>

\* One process that makes new commits, with and without --insert-before,
\* and rebases commits onto several destinations.
NextRootMerge ==
    \/ LoadAtHead("p1")
    \/ (StartTransaction("p1")
            /\ tx'["p1"].metadata.command \in {"new empty commit", "rebase commits"})
    \/ TxNew("p1")
    \/ NewInsertBefore("p1", MaxRootStore)
    \/ NewFinish("p1", MaxRootStore)
    \/ TxRebaseOnto("p1")
    \/ (Len(op_store) < MaxRootOps /\ Write("p1"))
    \/ Publish("p1")

SpecRootMerge == InitRootMerge /\ [][NextRootMerge]_vars

\* The commit has the root commit beside another parent.
merges_with_root(st, c) ==
    Len(st[c].parents) >= 2 /\ root_commit_id \in parent_ids(st, c)

\* The step is an insertion before targets that have several parents.
inserted_before_several ==
    /\ pc["p1"] = "in_tx" /\ pc'["p1"] = "inserted"
    /\ Cardinality(parents_of(store, call'.request)) > 1

\* The step handles a rebase onto the root commit and another commit.
rebase_onto_root_and_other ==
    /\ pc["p1"] = "in_tx" /\ pc'["p1"] # "in_tx"
    /\ tx["p1"].metadata.command = "rebase commits"
    /\ root_commit_id \in call'.destinations
    /\ Cardinality(call'.destinations) >= 2

\* C28: no commit with two or more parents has the root commit among its
\* parents: when new --insert-before computes more than one parent the root
\* is removed from the list, and a rebase whose destinations include the root
\* together with another commit is rejected.
NoMergeWithRoot ==
    [][/\ \A c \in DOMAIN store' : ~merges_with_root(store', c)
       /\ inserted_before_several =>
            parent_ids(store', call'.destination)
                = parents_of(store, call'.request) \ {root_commit_id}
       /\ rebase_onto_root_and_other =>
            /\ refused
            /\ store' = store /\ op_store' = op_store /\ tx'["p1"] = NoTx
      ]_vars

\* A rebase onto the root commit and another commit was refused in a
\* repository in which a commit was inserted before a child of the root and
\* a child of another commit: the new commit is on the other commit alone.
NoMergeWithRootWitness ==
    /\ call.op = "rebase error"
    /\ root_commit_id \in call.destinations
    /\ Cardinality(call.destinations) >= 2
    /\ \E n \in DOMAIN store, a, b \in DOMAIN store :
        /\ n > Len(RootMergeStore) /\ store[n].predecessors = <<>>
        /\ store[n].parents # <<root_commit_id>>
        /\ store[a].parents = <<n>> /\ store[b].parents = <<n>>
        /\ store[a].predecessors # <<>> /\ store[b].predecessors # <<>>
        /\ store[store[a].predecessors[1]].parents = <<root_commit_id>>
        /\ store[store[b].predecessors[1]].parents = store[n].parents

\* ------------------------------------------------------------------------
\* The rewrites a view merge records (MutableRepo::record_rewrites)
\* ------------------------------------------------------------------------

\* The number of commits of the repositories whose views are merged.
MaxChangeCommits == 4

\* The change ids of the commits but the root.
Changes == {1, 2}

RECURSIVE ChangeTrees(_)
\* Every store of n commits in which each commit but the root has one parent
\* among the commits before it and any of the change ids.
ChangeTrees(n) ==
    IF n = 1 THEN {<<RootCommit>>}
    ELSE {Append(st, Commit(<<q>>, <<>>, ch, {n}, n)) :
            st \in ChangeTrees(n - 1), q \in 1..(n - 1), ch \in Changes}

\* Two sides with any heads, on a base with any heads.
InitMergeRewrites ==
    /\ store \in ChangeTrees(MaxChangeCommits)
    /\ InitNoOps
    /\ \E own \in HeadViews(store), base \in HeadViews(store),
          other \in HeadViews(store) : InitMergeOf(own, base, other)

SpecMergeRewrites == InitMergeRewrites /\ [][NextMerge]_vars

\* The sides of the merge: the transaction's own view and the other view.
merge_sides == {call.own, call.other_repo.view}

\* The commits of the base that the side no longer reaches.
no_longer_reached(side) ==
    walk_revs(store, call.base_repo.view.head_ids, side.head_ids)

\* The commits newly reachable on the side.
newly_reachable(side) ==
    walk_revs(store, side.head_ids, call.base_repo.view.head_ids)

\* The commits newly reachable on the side that have the change id of c.
same_change_on(side, c) ==
    {a \in newly_reachable(side) : store[a].change_id = store[c].change_id}

\* The change id of c is the change id of a commit of the view.
change_present(v, c) ==
    \E a \in ancestors(store, v.head_ids) : store[a].change_id = store[c].change_id

\* A commit on the base side that a side no longer reaches is recorded as
\* rewritten to each commit newly reachable on that side that has the same
\* change id.
RewrittenToSameChange ==
    \A side \in merge_sides : \A c \in no_longer_reached(side) :
        same_change_on(side, c) \subseteq tx["p1"].rewritten_commits[c]

\* During view merge, a commit no longer reached is recorded as rewritten to
\* the commits of its change newly reachable on the side, and a commit is
\* recorded as abandoned only when its change id is present in base but gone
\* on both sides.
AbandonedWhenGoneOnBothSides ==
    call.op = "merge" =>
        /\ RewrittenToSameChange
        /\ \A c \in tx["p1"].abandoned_commits :
            /\ change_present(call.base_repo.view, c)
            /\ \A side \in merge_sides : ~change_present(side, c)

\* C29: during view merge, a commit on the base side that a side no longer
\* reaches is recorded as rewritten to each commit newly reachable on that
\* side that has the same change id, and a commit is recorded as abandoned
\* only when its change id is present in base and a side no longer reaches
\* the commit and newly reaches no commit of its change id.
AbandonedWhenGoneOnOneSide ==
    call.op = "merge" =>
        /\ RewrittenToSameChange
        /\ \A c \in tx["p1"].abandoned_commits :
            /\ change_present(call.base_repo.view, c)
            /\ \E side \in merge_sides :
                c \in no_longer_reached(side) /\ same_change_on(side, c) = {}

\* One side rewrote a commit of the base and the other side abandoned another
\* one, which the first side still reaches: the first is recorded as
\* rewritten, the second as abandoned.
MergeRewritesWitness ==
    /\ call.op = "merge"
    /\ \E c \in no_longer_reached(call.own), d \in no_longer_reached(call.other_repo.view) :
        /\ same_change_on(call.own, c) # {}
        /\ tx["p1"].rewritten_commits[c] = same_change_on(call.own, c)
        /\ d \in tx["p1"].abandoned_commits
        /\ d \in ancestors(store, call.own.head_ids)

\* ------------------------------------------------------------------------
\* The dirty bit of the view (dirty_cell::DirtyCell)
\* ------------------------------------------------------------------------

\* The operations of MutableRepo that change the heads of the view.
view_mutators ==
    {"write_commit", "add_head", "remove_head", "add_public_head",
     "remove_public_head", "set_view", "merge"}

\* The operations of MutableRepo that hand the view out.
view_readers == {"view", "consume"}

\* The invariants of the view are enforced: enforce_view_invariants would
\* leave it as it is.
invariants_enforced(st, v) == enforce_view_invariants(st, v) = v

\* C30: every MutableRepo operation that mutates the view sets the dirty
\* bit, and every read of the view first ensures it is clean, so no caller
\* ever observes a view changed by a mutator for which the invariants have
\* not been enforced again: an operation that leaves the view other than the
\* enforcement would leave it sets the bit, and the view that view() or
\* consume() hands out is clean and has the invariants enforced.
DirtyViewNeverObserved ==
    [][/\ (call'.op \in view_mutators
                /\ ~invariants_enforced(store', tx'["p1"].view))
            => tx'["p1"].dirty
       /\ call'.op \in view_readers
            => /\ ~tx'["p1"].dirty
               /\ invariants_enforced(store', tx'["p1"].view)
      ]_vars

\* ------------------------------------------------------------------------
\* Annotation over a parent without the file
\* ------------------------------------------------------------------------

\* The commit that the next turn of the loop of process_commits processes.
current_commit == Head(call.revset)

\* The commits the edges of the current commit lead to; none of the edges
\* of the graph of the revset is missing.
edge_targets == Range(graph_edges(store, Range(call.revset), current_commit))

\* The original lines that are tracked at the commit.
lines_at(results, commit_id) ==
    IF commit_id \in DOMAIN results.local_line_map
    THEN Range(results.local_line_map[commit_id]) ELSE {}

\* The step processes a commit with an edge to a commit whose tree does not
\* hold the file.
absent_parent_step ==
    /\ call.run.outcome = "running" /\ call.revset # <<>>
    /\ call'.op = "process_commit"
    /\ \E q \in edge_targets : ~call.files[q].present

\* C31: while annotating, when a parent edge of a commit that is not missing
\* leads to a commit whose tree does not hold the file, that parent is
\* skipped without failing, and the lines of the commit that are not matched
\* to another parent are attributed to the commit itself.
AbsentParentSkipped ==
    [][absent_parent_step =>
        /\ call'.run.outcome # "panic"
        /\ call'.run.outcome = "running" =>
            \A n \in lines_at(call.run.results, current_commit) :
                \/ /\ n \in DOMAIN call'.run.results.original_line_map
                   /\ call'.run.results.original_line_map[n] = current_commit
                \/ \E q \in edge_targets :
                    /\ call.files[q].present
                    /\ n \in lines_at(call'.run.results, q)
      ]_vars

\* ------------------------------------------------------------------------
\* Leaving the working-copy commit
\* ------------------------------------------------------------------------

\* The step is a call of check_out or edit by the transaction of p1.
leaving_step(command) ==
    /\ pc["p1"] = "in_tx" /\ pc'["p1"] = "mutated"
    /\ tx["p1"].metadata.command = command

\* The working-copy commit the workspace has before the step.
left_commit == tx["p1"].view.wc_commit_ids["default"]

\* The commit left is empty, has an empty description and is a head.
left_is_discardable ==
    /\ left_commit # NoCommit
    /\ is_empty(store, left_commit)
    /\ store[left_commit].description = 0
    /\ left_commit \in view(store, tx["p1"]).head_ids

\* What the step records: the commit left as abandoned when it is
\* discardable, and nothing else.
leaving_recorded ==
    /\ tx'["p1"].abandoned_commits
            = tx["p1"].abandoned_commits
                \cup (IF left_is_discardable THEN {left_commit} ELSE {})
    /\ tx'["p1"].rewritten_commits = tx["p1"].rewritten_commits

\* The step has written one commit, on one visible commit and with its tree,
\* and made it the working-copy commit of the workspace.
checked_out_new_commit ==
    /\ Len(store') = Len(store) + 1
    /\ SubSeq(store', 1, Len(store)) = store
    /\ \E c \in visible("p1") :
        /\ store'[Len(store')].parents = <<c>>
        /\ store'[Len(store')].tree = store[c].tree
    /\ tx'["p1"].view.wc_commit_ids["default"] = Len(store')

\* C32: check_out and edit record the working-copy commit they leave as
\* abandoned if and only if it is empty, has an empty description and is a
\* head, and record nothing otherwise; check_out then writes a new commit
\* whose only parent is the given commit and whose tree is that commit's
\* tree, and makes it the working-copy commit of the workspace.
LeaveCommitAbandonsEmptyHead ==
    [][/\ leaving_step("edit commit") => leaving_recorded
       /\ leaving_step("check out commit")
            => leaving_recorded /\ checked_out_new_commit]_vars

\* Both cases have happened in one history: an operation that edited away
\* from a described commit and recorded nothing is followed by a check out
\* that has abandoned the empty head it left.
LeaveCommitWitness ==
    /\ pc["p1"] = "mutated"
    /\ tx["p1"].metadata.command = "check out commit"
    /\ tx["p1"].abandoned_commits # {}
    /\ \E o \in DOMAIN op_store : op_store[o].metadata.command = "edit commit"

\* ------------------------------------------------------------------------
\* The trie as a map from keys to values
\* ------------------------------------------------------------------------

\* The values stored under keys.
TrieValues == {1, 2}

\* The keys that are inserted: the keys of at most two elements, so that
\* keys that extend them are looked up.
InsertedKeys == UNION {KeysOfLen(n) : n \in 0..2}

\* No answer of get, and no value counted by itervalues.
NothingGot == [k \in Keys |-> NoValue]
NothingYielded == [v \in TrieValues |-> 0]

RECURSIVE Trie_inserted(_, _)
\* Trie::insert; the value it returns.
Trie_inserted(t, key) ==
    IF t.key_prefix = <<>> /\ t.value = NoValue /\ DOMAIN t.next_level = {}
    THEN TRUE
    ELSE IF starts_with(key, t.key_prefix)
    THEN IF Len(key) = Len(t.key_prefix)
         THEN t.value = NoValue
         ELSE Trie_inserted(IF key[Len(t.key_prefix) + 1] \in DOMAIN t.next_level
                            THEN t.next_level[key[Len(t.key_prefix) + 1]]
                            ELSE Trie_new,
                            SubSeq(key, Len(t.key_prefix) + 2, Len(key)))
    ELSE Trie_inserted(Trie_split(t, len_common_prefix(key, t.key_prefix)), key)

RECURSIVE Trie_get(_, _)
\* Trie::get
Trie_get(t, key) ==
    IF ~starts_with(key, t.key_prefix) THEN NoValue
    ELSE IF Len(key) > Len(t.key_prefix)
    THEN IF key[Len(t.key_prefix) + 1] \in DOMAIN t.next_level
         THEN Trie_get(t.next_level[key[Len(t.key_prefix) + 1]],
                       SubSeq(key, Len(t.key_prefix) + 2, Len(key)))
         ELSE NoValue
    ELSE t.value

RECURSIVE Trie_itervalues(_, _)
\* TrieValueIterator: how often the iterator of the trie yields the value v;
\* current_value first, then the iterators of the tries of the next level,
\* in the order of the hash map, which does not change the count.
Trie_itervalues(t, v) ==
    (IF t.value = v THEN 1 ELSE 0)
        + (IF "a" \in DOMAIN t.next_level
           THEN Trie_itervalues(t.next_level["a"], v) ELSE 0)
        + (IF "b" \in DOMAIN t.next_level
           THEN Trie_itervalues(t.next_level["b"], v) ELSE 0)

\* An empty trie; contents is the map the trie is to stand for.
InitTrieMap ==
    /\ store = <<RootCommit>>
    /\ InitNoOps
    /\ tx = [p \in Procs |-> NoTx]
    /\ call = [op |-> "new", trie |-> Trie_new,
               contents |-> [k \in InsertedKeys |-> NoValue], key |-> <<>>,
               inserted |-> FALSE, got |-> NothingGot,
               values |-> NothingYielded]

\* trie.insert(key, value), for a new key or one that is present
TrieMapInsert ==
    /\ \E key \in InsertedKeys, value \in TrieValues :
        /\ Cardinality({k \in InsertedKeys : call.contents[k] # NoValue} \cup {key})
                <= MaxKeys
        /\ call' = [call EXCEPT !.op = "insert",
                        !.trie = Trie_insert(call.trie, key, value),
                        !.contents[key] = value, !.key = key,
                        !.inserted = Trie_inserted(call.trie, key),
                        !.got = NothingGot, !.values = NothingYielded]
    /\ UNCHANGED <<store, op_store, op_heads, lock, pc, repo, tx, unresolved>>

\* trie.get(key), for every key
TrieMapGet ==
    /\ call' = [call EXCEPT !.op = "get",
                    !.got = [k \in Keys |-> Trie_get(call.trie, k)],
                    !.values = NothingYielded]
    /\ UNCHANGED <<store, op_store, op_heads, lock, pc, repo, tx, unresolved>>

\* trie.itervalues(), counted by value
TrieMapIterValues ==
    /\ call' = [call EXCEPT !.op = "itervalues",
                    !.values = [v \in TrieValues |-> Trie_itervalues(call.trie, v)],
                    !.got = NothingGot]
    /\ UNCHANGED <<store, op_store, op_heads, lock, pc, repo, tx, unresolved>>

NextTrieMap == TrieMapInsert \/ TrieMapGet \/ TrieMapIterValues

SpecTrieMap == InitTrieMap /\ [][NextTrieMap]_vars

\* C33: after any sequence of inserts, get(k) returns the value inserted
\* last under k and None for every key that was never inserted, proper
\* prefixes and extensions of inserted keys included; insert returns true
\* iff the key was not present; itervalues yields each stored value exactly
\* once.
TrieIsMap ==
    [][/\ call'.op = "insert"
            => call'.inserted = (call.contents[call'.key] = NoValue)
       /\ call'.op = "get"
            => \A k \in Keys :
                call'.got[k] = IF k \in InsertedKeys THEN call.contents[k]
                               ELSE NoValue
       /\ call'.op = "itervalues"
            => \A v \in TrieValues :
                call'.values[v]
                    = Cardinality({k \in InsertedKeys : call.contents[k] = v})
      ]_vars

\* get has answered for a trie of MaxKeys keys in which a key was inserted
\* twice, with a key that is a proper prefix of a key of the trie and not in
\* it, and a key of the trie that extends another key of the trie.
TrieIsMapWitness ==
    /\ call.op = "get"
    /\ ~call.inserted
    /\ Cardinality({k \in InsertedKeys : call.contents[k] # NoValue}) = MaxKeys
    /\ call.contents[<<"a">>] = NoValue /\ call.got[<<"a">>] = NoValue
    /\ call.contents[<<"a", "b">>] = 2 /\ call.got[<<"a", "b">>] = 2
    /\ call.contents[<<>>] = 1 /\ call.got[<<>>] = 1
    /\ call.got[<<"a", "b", "a">>] = NoValue

\* ------------------------------------------------------------------------
\* Duplicating a set of commits
\* ------------------------------------------------------------------------

\* The number of commits of the store that commits are duplicated from.
MaxDuplicateCommits == 4

RECURSIVE generation(_, _)
\* The generation number of the index: the root has none above it.
generation(st, c) ==
    IF parent_ids(st, c) = {} THEN 0
    ELSE 1 + Max({generation(st, p) : p \in parent_ids(st, c)})

\* The commit of S that topo_order puts first: of the least generation, and
\* of the least id among those.
oldest(st, S) ==
    CHOOSE c \in S : \A d \in S :
        \/ generation(st, c) < generation(st, d)
        \/ generation(st, c) = generation(st, d) /\ c <= d

RECURSIVE topo_order(_, _)
\* Index::topo_order: parents before children.
topo_order(st, S) ==
    IF S = {} THEN <<>>
    ELSE <<oldest(st, S)>> \o topo_order(st, S \ {oldest(st, S)})

\* The parents of the duplicate that keep the parents of the original.
duplicate_parents_kept(st, original, duplicated_old_to_new) == st[original].parents

\* The parents of the duplicate: each parent of the original that was
\* duplicated is replaced by its duplicate.
duplicate_parents(st, original, duplicated_old_to_new) ==
    [i \in DOMAIN st[original].parents |->
        IF st[original].parents[i] \in DOMAIN duplicated_old_to_new
        THEN duplicated_old_to_new[st[original].parents[i]]
        ELSE st[original].parents[i]]

RECURSIVE cmd_duplicate_loop(_, _, _, _)
\* The loop of cmd_duplicate over the commits in topological order; each
\* duplicate is written through the MutableRepo and becomes a head.
cmd_duplicate_loop(st, r, order, duplicated_old_to_new) ==
    IF order = <<>>
    THEN [store |-> st, repo |-> r, duplicated_old_to_new |-> duplicated_old_to_new]
    ELSE \* the store with the duplicate of the first commit written to it
         LET written == store_write_commit(st,
                            [duplicated_commit(st, Head(order)) EXCEPT
                                !.parents = duplicate_parents(st, Head(order),
                                                        duplicated_old_to_new)])
         IN  cmd_duplicate_loop(written, add_head(written, r, Len(written)),
                                Tail(order),
                                (Head(order) :> Len(written)) @@ duplicated_old_to_new)

\* A transaction on a repository that holds any graph of commits, all of
\* them visible.
InitDuplicate ==
    /\ store \in Dags(MaxDuplicateCommits)
    /\ InitNoOps
    /\ tx = [p \in Procs |->
                IF p = "p1"
                THEN MutableRepo_new(0, full_index(store),
                        View(heads(store, DOMAIN store), {root_commit_id},
                             NoWorkspaces, NoRefs))
                ELSE NoTx]
    /\ call = [op |-> "start_transaction", to_duplicate |-> {}, error |-> FALSE,
               originals |-> store, duplicated_old_to_new |-> <<>>]

\* cmd_duplicate for the revisions to_duplicate; refused for the root commit.
CmdDuplicate ==
    /\ call.op = "start_transaction"
    /\ \E to_duplicate \in (SUBSET DOMAIN store) \ {{}} :
        IF root_commit_id \in to_duplicate
        THEN /\ call' = [call EXCEPT !.op = "duplicate", !.error = TRUE]
             /\ UNCHANGED <<store, tx>>
        ELSE \E done \in {cmd_duplicate_loop(store, tx["p1"],
                                             topo_order(store, to_duplicate), <<>>)} :
                /\ store' = done.store
                /\ tx' = [tx EXCEPT !["p1"] = done.repo]
                /\ call' = [call EXCEPT !.op = "duplicate",
                                !.to_duplicate = to_duplicate,
                                !.duplicated_old_to_new = done.duplicated_old_to_new]
    /\ UNCHANGED <<op_store, op_heads, lock, pc, repo, unresolved>>

NextDuplicate == CmdDuplicate

SpecDuplicate == InitDuplicate /\ [][NextDuplicate]_vars

\* The change ids of the commits of a set.
change_ids(st, S) == {st[c].change_id : c \in S}

\* C34: duplicate of a set S of commits gives every c in S a duplicate with
\* a new change id and the parents of c in the same order, each parent in S
\* replaced by its duplicate and every other parent kept; parents are
\* duplicated before their children, and the original commits are left
\* unchanged.
DuplicateKeepsShape ==
    (call.op = "duplicate" /\ ~call.error) =>
        LET S == call.to_duplicate
            dup == call.duplicated_old_to_new
            old == DOMAIN call.originals
        IN  /\ DOMAIN dup = S
            /\ \A c \in S : dup[c] \in DOMAIN store \ old
            /\ \A c, d \in S : dup[c] = dup[d] => c = d
            /\ \A c \in S :
                /\ store[dup[c]].change_id \notin change_ids(store, DOMAIN store \ {dup[c]})
                /\ store[dup[c]].parents
                    = [i \in DOMAIN store[c].parents |->
                        IF store[c].parents[i] \in S THEN dup[store[c].parents[i]]
                        ELSE store[c].parents[i]]
                /\ \A p \in parent_ids(store, c) \cap S : dup[p] < dup[c]
            /\ SubSeq(store, 1, Len(call.originals)) = call.originals

\* A merge commit was duplicated together with one of its parents and
\* without the other, and with a child of its own.
DuplicateWitness ==
    /\ call.op = "duplicate" /\ ~call.error
    /\ \E c, d \in call.to_duplicate :
        /\ c \in parent_ids(store, d)
        /\ \E p, q \in parent_ids(store, c) :
            p \in call.to_duplicate /\ q \notin call.to_duplicate

\* ------------------------------------------------------------------------
\* Conservation of the lines during annotation
\* ------------------------------------------------------------------------

\* The places that track the original line n: the entries of the local line
\* maps of the commits that hold it, and its entry in original_line_map.
times_tracked(results, n) ==
    Cardinality({p \in UNION {{<<c, l>> : l \in DOMAIN results.local_line_map[c]} :
                                c \in DOMAIN results.local_line_map} :
                    results.local_line_map[p[1]][p[2]] = n})
        + (IF n \in DOMAIN results.original_line_map THEN 1 ELSE 0)

MaxRecordOps == 2

\* A store with a commit X (2), its rewrite X' (3) of the same change, and an
\* empty commit without description on X' (4).
RecordStore ==
    <<RootCommit, Commit(<<1>>, <<>>, 1, {2}, 2), Commit(<<1>>, <<>>, 1, {3}, 3),
      Commit(<<3>>, <<>>, 2, {3}, 0)>>

\* The views merge is given for a repository that no call was made on.
NoRepo == ReadonlyRepo(root_view, <<>>)

\* A transaction on the repository whose only head is the empty commit, the
\* working-copy commit of the default workspace.
InitRecord ==
    /\ store = RecordStore
    /\ op_store = <<>>
    /\ op_heads = {}
    /\ lock = NoProc
    /\ pc = [p \in Procs |-> IF p = "p1" THEN "in_tx" ELSE "idle"]
    /\ repo = [p \in Procs |-> 0]
    /\ unresolved = [p \in Procs |-> NoUnresolved]
    /\ tx = [p \in Procs |->
                IF p = "p1"
                THEN MutableRepo_new(0, full_index(store),
                        View({Len(RecordStore)}, {root_commit_id},
                             view_set_wc_commit(root_view, "default",
                                                Len(RecordStore)).wc_commit_ids,
                             NoRefs))
                ELSE NoTx]
    /\ call = [op |-> "start_transaction", steps |-> 0, error |-> FALSE,
               commit_id |-> NoCommit, own |-> root_view,
               base_repo |-> NoRepo, other_repo |-> NoRepo]

\* A call may be made: the bound is not reached and no assertion has failed.
MayCall == call.steps < MaxRecordOps /\ ~tx["p1"].panicked

\* The call op on commit_id, which leaves the MutableRepo r.
RecordStep(op, commit_id, error, r) ==
    /\ tx' = [tx EXCEPT !["p1"] = r]
    /\ call' = [op |-> op, steps |-> call.steps + 1, error |-> error,
                commit_id |-> commit_id, own |-> view(store, tx["p1"]),
                base_repo |-> NoRepo, other_repo |-> NoRepo]
    /\ UNCHANGED <<op_store, op_heads, lock, pc, repo, unresolved>>

\* mut_repo.record_rewritten_commit(old_id, new_id), for commits other than
\* the root, as the assertion requires of the caller
RecordRewrittenCommit ==
    /\ MayCall
    /\ \E old_id \in DOMAIN store \ {root_commit_id} :
        \E new_id \in DOMAIN store \ {root_commit_id, old_id} :
            RecordStep("record_rewritten_commit", old_id, FALSE,
                       record_rewritten_commit(tx["p1"], old_id, new_id))
    /\ UNCHANGED store

\* mut_repo.record_abandoned_commit(old_id), for a commit other than the root
RecordAbandonedCommit ==
    /\ MayCall
    /\ \E old_id \in DOMAIN store \ {root_commit_id} :
        RecordStep("record_abandoned_commit", old_id, FALSE,
                   record_abandoned_commit(tx["p1"], old_id))
    /\ UNCHANGED store

\* mut_repo.check_out(workspace_id, settings, commit), for any commit
RecordCheckOut ==
    /\ MayCall
    /\ Len(store) <= Len(RecordStore)
    /\ \E c \in DOMAIN store :
        /\ store' = store_write_commit(store, wc_commit_for(store, c))
        /\ tx' = [tx EXCEPT !["p1"] = check_out(store', @, "default", Len(store'))]
        /\ call' = [op |-> "check_out", steps |-> call.steps + 1, error |-> FALSE,
                    commit_id |-> c, own |-> view(store, tx["p1"]),
                    base_repo |-> NoRepo, other_repo |-> NoRepo]
    /\ UNCHANGED <<op_store, op_heads, lock, pc, repo, unresolved>>

\* mut_repo.edit(workspace_id, commit), for any commit; the call returns
\* RewriteRootCommit for the root commit
RecordEdit ==
    /\ MayCall
    /\ \E c \in DOMAIN store :
        RecordStep("edit", c, c = root_commit_id, edit(store, tx["p1"], "default", c))
    /\ UNCHANGED store

\* mut_repo.set_wc_commit(workspace_id, commit_id), for any commit; the call
\* returns RewriteRootCommit for the root commit
RecordSetWcCommit ==
    /\ MayCall
    /\ \E c \in DOMAIN store :
        RecordStep("set_wc_commit", c, c = root_commit_id,
                   set_wc_commit(tx["p1"], "default", c))
    /\ UNCHANGED store

\* mut_repo.remove_head(id)
RecordRemoveHead ==
    /\ MayCall
    /\ \E c \in DOMAIN store :
        RecordStep("remove_head", c, FALSE, remove_head(tx["p1"], c))
    /\ UNCHANGED store

\* mut_repo.remove_public_head(id)
RecordRemovePublicHead ==
    /\ MayCall
    /\ \E c \in DOMAIN store :
        RecordStep("remove_public_head", c, FALSE, remove_public_head(tx["p1"], c))
    /\ UNCHANGED store

\* mut_repo.set_view(data), for a view without heads or with the heads of a
\* repository, with and without the root as its public head
RecordSetView ==
    /\ MayCall
    /\ \E h \in {{}} \cup Antichains(store, DOMAIN store), p \in SUBSET {root_commit_id} :
        RecordStep("set_view", NoCommit, FALSE,
                   set_view(tx["p1"], View(h, p, NoWorkspaces, NoRefs)))
    /\ UNCHANGED store

\* mut_repo.merge(base_repo, other_repo), for two repositories of the store
RecordMerge ==
    /\ MayCall
    /\ \E base \in HeadViews(store), other \in HeadViews(store) :
        /\ base # other
        /\ tx' = [tx EXCEPT !["p1"] =
                    merge(store, @, ReadonlyRepo(base, full_index(store)),
                          ReadonlyRepo(other, full_index(store)))]
        /\ call' = [op |-> "merge", steps |-> call.steps + 1, error |-> FALSE,
                    commit_id |-> NoCommit, own |-> view(store, tx["p1"]),
                    base_repo |-> ReadonlyRepo(base, full_index(store)),
                    other_repo |-> ReadonlyRepo(other, full_index(store))]
    /\ UNCHANGED <<store, op_store, op_heads, lock, pc, repo, unresolved>>

NextRecord ==
    \/ RecordRewrittenCommit
    \/ RecordAbandonedCommit
    \/ RecordCheckOut
    \/ RecordEdit
    \/ RecordSetWcCommit
    \/ RecordRemoveHead
    \/ RecordRemovePublicHead
    \/ RecordSetView
    \/ RecordMerge

SpecRecord == InitRecord /\ [][NextRecord]_vars

\* The commits that are keys of rewritten_commits.
rewritten_keys(r) == {c \in CommitIds : r.rewritten_commits[c] # {}}

\* The commits recorded both as rewritten and as abandoned.
recorded_as_both(r) == rewritten_keys(r) \cap r.abandoned_commits

\* No commit is at the same time a key of rewritten_commits and a member of
\* abandoned_commits.
NeverRewrittenAndAbandoned == recorded_as_both(tx["p1"]) = {}

\* One side of the merge rewrote the commit and the other side abandoned it.
sides_disagree_on(c) ==
    \E s1 \in merge_sides, s2 \in merge_sides :
        /\ c \in no_longer_reached(s1) /\ same_change_on(s1, c) # {}
        /\ c \in no_longer_reached(s2) /\ same_change_on(s2, c) = {}

\* C36: no single call of record_rewritten_commit, record_abandoned_commit,
\* check_out, edit or record_rewrites makes a commit both a key of
\* rewritten_commits and a member of abandoned_commits; a commit is both
\* only when one call recorded it as rewritten and another as abandoned, as
\* the two record_rewrites calls of a merge do when one side rewrote the
\* commit and the other side abandoned it.
RecordedBothBySeparateCalls ==
    [][\A c \in recorded_as_both(tx'["p1"]) \ recorded_as_both(tx["p1"]) :
        \/ c \in rewritten_keys(tx["p1"]) \cup tx["p1"].abandoned_commits
        \/ call'.op = "merge" /\ sides_disagree_on(c)']_vars

\* A merge has recorded the commit X both as rewritten, to X' on the own
\* side, and as abandoned, by the other side.
RecordedBothWitness ==
    /\ call.op = "merge" /\ call.steps = 1
    /\ recorded_as_both(tx["p1"]) = {2}
    /\ tx["p1"].rewritten_commits[2] = {3}
    /\ sides_disagree_on(2)

\* C37: the root commit is never recorded as rewritten or abandoned: the
\* assertions of record_rewritten_commit and record_abandoned_commit hold in
\* every state reached by check_out, edit, remove_head, remove_public_head,
\* set_view and merge.
RootNeverRecorded ==
    /\ ~tx["p1"].panicked
    /\ root_commit_id \notin rewritten_keys(tx["p1"])
    /\ root_commit_id \notin tx["p1"].abandoned_commits

\* The step is a call of set_wc_commit or edit with the root commit id.
root_commit_step ==
    /\ call'.steps = call.steps + 1
    /\ call'.op \in {"set_wc_commit", "edit"}
    /\ call'.commit_id = root_commit_id

\* C38: set_wc_commit and edit given the root commit id return
\* RewriteRootCommit and leave the MutableRepo unchanged: the working-copy
\* commit of the workspace, the heads and the commits recorded as rewritten
\* and as abandoned are what they were before the call.
RootCommitRefusedUnchanged ==
    [][root_commit_step =>
        /\ call'.error
        /\ view(store', tx'["p1"]) = view(store, tx["p1"])
        /\ tx'["p1"].rewritten_commits = tx["p1"].rewritten_commits
        /\ tx'["p1"].abandoned_commits = tx["p1"].abandoned_commits]_vars

\* ------------------------------------------------------------------------
\* The line ranges of the unified hunks
\* ------------------------------------------------------------------------

\* The number of lines of a range.
range_len(range) == range.end - range.start

\* The line numbers of a range, in order.
range_lines(range) == [k \in 1..range_len(range) |-> range.start + k - 1]

\* The line of the left file that the diff matched to the line of the right
\* file.
left_of(right_line) ==
    CHOOSE l \in 0..(MaxDiffHunks * MaxMatchingLines) :
        \E i \in DOMAIN call.diff_hunks : \E k \in DOMAIN call.diff_hunks[i].contents[2] :
            /\ call.diff_hunks[i].kind = "Matching"
            /\ call.diff_hunks[i].contents[2][k] = right_line
            /\ call.diff_hunks[i].contents[1][k] = l

is_left_line(line) == line.type \in {"Context", "Removed"}

is_right_line(line) == line.type \in {"Context", "Added"}

\* The lines of the left file a hunk shows: its context lines, which are
\* taken from the right file, and its removed lines.
left_lines_shown(hunk) ==
    [k \in DOMAIN SelectSeq(hunk.lines, is_left_line) |->
        IF SelectSeq(hunk.lines, is_left_line)[k].type = "Context"
        THEN left_of(SelectSeq(hunk.lines, is_left_line)[k].content)
        ELSE SelectSeq(hunk.lines, is_left_line)[k].content]

\* The lines of the right file a hunk shows.
right_lines_shown(hunk) ==
    [k \in DOMAIN SelectSeq(hunk.lines, is_right_line) |->
        SelectSeq(hunk.lines, is_right_line)[k].content]

\* C39: for every hunk of unified_diff_hunks the left range has as many
\* lines as the hunk has Context and Removed lines and the right range as
\* many as it has Context and Added lines; the Context and Removed lines are
\* in order the lines of the left input in the left range, the Context and
\* Added lines those of the right input in the right range; every hunk has
\* an Added or a Removed line, and the ranges of consecutive hunks increase
\* strictly and do not overlap.
UnifiedDiffRanges ==
    call.op = "unified_diff_hunks" =>
        /\ \A h \in DOMAIN call.hunks :
            /\ range_len(call.hunks[h].left_line_range)
                    = Len(SelectSeq(call.hunks[h].lines, is_left_line))
            /\ range_len(call.hunks[h].right_line_range)
                    = Len(SelectSeq(call.hunks[h].lines, is_right_line))
            /\ left_lines_shown(call.hunks[h]) = range_lines(call.hunks[h].left_line_range)
            /\ right_lines_shown(call.hunks[h]) = range_lines(call.hunks[h].right_line_range)
            /\ \E k \in DOMAIN call.hunks[h].lines :
                    call.hunks[h].lines[k].type \in {"Added", "Removed"}
        /\ \A h \in 1..(Len(call.hunks) - 1) :
            /\ call.hunks[h].left_line_range.end <= call.hunks[h + 1].left_line_range.start
            /\ call.hunks[h].right_line_range.end <= call.hunks[h + 1].right_line_range.start
            /\ call.hunks[h].left_line_range.start < call.hunks[h + 1].left_line_range.start
            /\ call.hunks[h].right_line_range.start < call.hunks[h + 1].right_line_range.start

\* Two hunks were made of a diff with context: the first has a removed
\* line, the second starts with a context line and has an added line, and
\* the two files number their lines differently there.
UnifiedDiffRangesWitness ==
    /\ call.op = "unified_diff_hunks"
    /\ Len(call.hunks) = 2
    /\ \E k \in DOMAIN call.hunks[1].lines : call.hunks[1].lines[k].type = "Removed"
    /\ \E k \in DOMAIN call.hunks[2].lines : call.hunks[2].lines[k].type = "Added"
    /\ call.hunks[2].lines[1].type = "Context"
    /\ call.hunks[2].left_line_range.start # call.hunks[2].right_line_range.start

\* ------------------------------------------------------------------------
\* Convergence of the resolution of the op heads
\* ------------------------------------------------------------------------

\* Concurrent processes, each a run of one describe command: it loads the
\* repository at the head, merging the op heads when there are several,
\* runs one transaction and publishes it; after that it only loads.
NextResolve ==
    \E p \in Procs :
        \/ LoadAtHead(p)
        \/ ResolveMerge(p)
        \/ ResolveFinish(p)
        \/ (~has_written(p) /\ StartTransaction(p)
                /\ tx'[p].metadata.command = "describe commit")
        \/ TxRewrite(p)
        \/ TxRebase(p)
        \/ Write(p)
        \/ Publish(p)

\* A resolve that load_at_head started runs to its end, because
\* UnresolvedHeadRepo::resolve writes the merge and calls finish in one
\* call. Nothing makes a process load, write or publish.
\* resolve() is a straight-line function: a caller that holds the lock of
\* the op heads goes on to write the merged operation, and then to finish().
\* can_resolve(p) is ENABLED <<ResolveMerge(p)>>_vars written as a state
\* predicate, so the second conjunct of the fairness is WF_vars(ResolveMerge(p)).
can_resolve(p) ==
    /\ pc[p] = "unresolved"
    /\ Len(op_store) < MaxOps
    /\ \E merged \in {resolve(store, op_store, unresolved[p].op_heads, p)} :
           /\ Len(merged.store) <= MaxCommits
           /\ ~merged.panicked

SpecResolve ==
    /\ InitOps /\ [][NextResolve]_vars
    /\ \A p \in Procs : WF_vars(ResolveFinish(p))
    /\ \A p \in Procs : []<>(~can_resolve(p)) \/ []<><<ResolveMerge(p)>>_vars

\* The step is the publication of an operation by a writer.
writer_publishes == \E p \in Procs : pc[p] = "written" /\ pc'[p] = "loaded"

\* The step is a load_at_head of the process.
load_step(p) == pc[p] \in {"idle", "loaded"} /\ pc'[p] \in {"loaded", "unresolved"}

\* As long as no writer publishes, a single op head stays the op head, a
\* load_at_head returns Single with it, and no merge operation is written.
stays_resolved ==
    (Cardinality(op_heads) = 1 /\ ~writer_publishes) =>
        /\ op_heads' = op_heads
        /\ merge_ops' = merge_ops
        /\ \A p \in Procs :
            load_step(p) => pc'[p] = "loaded" /\ op_heads = {repo'[p]}

\* C40: automatic resolution converges: a load_at_head().resolve() that
\* finds several op heads completes with its merge operation as the only
\* op head, and once no writer publishes any more, after one resolve has
\* completed every later load_at_head returns Single with that same
\* operation and no further merge operation is created.
ResolutionConverges ==
    /\ [][stays_resolved]_vars
    /\ \A p \in Procs :
        (pc[p] = "unresolved") ~> (pc[p] = "loaded" /\ op_heads = {repo[p]})

\* Both processes have published, one of them has merged the two op heads,
\* and the other has loaded the repository after that: at the merge
\* operation, the only op head.
ResolutionConvergesWitness ==
    \E m \in merge_ops : \E p \in Procs, q \in Procs :
        /\ p # q
        /\ op_heads = {m}
        /\ op_store[m].metadata.username = p
        /\ pc[q] = "loaded" /\ repo[q] = m
        /\ has_written(p) /\ has_written(q)

====
